---- MODULE Spec2Model ----
(***************************************************************************)
(* Model of es-translator's translation engine.                            *)
(*                                                                         *)
(* One producer (EsTranslator.translate_documents_in_pool) scans the hits  *)
(* of a search and puts them on a bounded JoinableQueue; pool_size worker  *)
(* processes (worker.translation_worker) take them off, translate them     *)
(* (TranslatedHit.add_translation) and update the cluster                  *)
(* (TranslatedHit.save).  A shared manager value carries the first         *)
(* cluster-side error back to the producer.  Engine runs follow each other *)
(* on the same index (one run per invocation of start_now).  In plan mode  *)
(* (start_later) the producer sends one deferred task per hit instead, and *)
(* remote workers run tasks.translate_document_task on them.               *)
(***************************************************************************)
EXTENDS Integers, Sequences, FiniteSets, TLC

\* ------------------------------------------------------------- bounds
MaxDocs == 2          \* documents held by the index
MaxPool == 2          \* largest pool_size a run is started with
MaxRuns == 2          \* engine runs in a row on the same index (SpecRuns)
RunsPool == 1         \* largest pool_size of the runs in a row (SpecRuns)

Docs    == 1..MaxDocs
Workers == 1..MaxPool

\* Remote workers consuming the deferred tasks.
MaxRemote == 1
Remotes == 1..MaxRemote

\* Primary shards of the index.
NumShards == 2

\* Longest back-end output of the function specifications.
MaxLen == 3

\* Longest list of remote pairs of the Apertium repository.
MaxPairs == 4

\* Processes building an Argos interpreter at the same time.
MaxProcs == 2

\* download_package calls made on one repository.
MaxCalls == 3

\* Longest package index of the index specification.
MaxPackages == 3

\* Longest pool directory listing.
MaxListing == 3

\* Seconds the monitor is followed for.
MaxClock == 6

\* Tasks completed before the monitor starts, and while it runs.
MaxDone == 2

Procs   == 1..MaxProcs

\* Argos pairs, written as the lock file names them: from_code "_" to_code.
ArgosPairs == {"es_en", "fr_en", "es_fr"}

\* The pairs the Argos package index offers.
AvailablePackages == {"es_en", "fr_en"}

\* Apertium package names asked of the repository; the Packages file lists the
\* first only.
PackageNames == {"apertium-es-en", "apertium-xx-yy"}
ListedPackages == {"apertium-es-en"}

\* No download_package call made yet.
NoCall == [seq |-> 0, name |-> "", force |-> FALSE, result |-> "none",
           existed |-> FALSE, cached |-> FALSE, downloaded |-> FALSE]


\* ------------------------------------------------------ document wrapper
\* The interpreter of the runs: its name and the display names of its pair.
interpreter == [name |-> "ARGOS", source_name |-> "English", target_name |-> "French"]

\* str.upper() on the strings the model handles.
upper(s) ==
    CASE s = "English" -> "ENGLISH"
      [] s = "French"  -> "FRENCH"
      [] s = "Spanish" -> "SPANISH"
      [] OTHER         -> s

\* The back end's output for the source text, as a sequence of characters.
translate_output == <<"s", "a", "l", "u", "t">>

\* A buggy truncation: one character too many is kept.
truncated_content_one_more(content, max_content_length) ==
    IF max_content_length = -1 THEN content
    ELSE SubSeq(content, 1, IF max_content_length + 1 < Len(content)
                            THEN max_content_length + 1 ELSE Len(content))

\* content if max_content_length == -1 else content[:max_content_length]
truncated_content(content, max_content_length) ==
    IF max_content_length = -1 THEN content
    ELSE IF max_content_length < -1
         THEN SubSeq(content, 1, IF Len(content) + max_content_length > 0
                                 THEN Len(content) + max_content_length ELSE 0)
         ELSE SubSeq(content, 1, IF max_content_length < Len(content)
                                 THEN max_content_length ELSE Len(content))

\* The max_content_length option of the runs (-1: unlimited).
max_content_length == -1

\* same_languages(t) of is_translated.
same_languages(t, source_language, target_language, translator) ==
    /\ t.source_language = upper(source_language)
    /\ t.target_language = upper(target_language)
    /\ t.translator = translator

\* A buggy is_translated: compares the stored names with the names as given.
is_translated_as_given(translations, source_language, target_language, translator) ==
    \E i \in DOMAIN translations :
        /\ translations[i].source_language = source_language
        /\ translations[i].target_language = target_language
        /\ translations[i].translator = translator

\* TranslatedHit.is_translated: any record of the hit has the triple.
is_translated(translations, source_language, target_language, translator) ==
    \E i \in DOMAIN translations :
        same_languages(translations[i], source_language, target_language, translator)

\* A buggy test: force is ignored.
calls_translate_ignoring_force(translations, force) ==
    ~is_translated(translations, interpreter.source_name, interpreter.target_name,
                   interpreter.name)

\* A buggy test: the back end is called whatever the hit already holds.
calls_translate_always(translations, force) == TRUE

\* if self.force or not self.is_translated(...): whether add_translation calls
\* the back end and appends a record.
calls_translate(translations, force) ==
    force \/ ~is_translated(translations, interpreter.source_name,
                            interpreter.target_name, interpreter.name)

\* The record add_translation appends.
translation_record ==
    [translator      |-> interpreter.name,
     source_language |-> upper(interpreter.source_name),
     target_language |-> upper(interpreter.target_name),
     content         |-> truncated_content(translate_output, max_content_length)]

\* TranslatedHit.add_translation when the back end answers.
add_translation(translations, force) ==
    IF calls_translate(translations, force)
    THEN Append(translations, translation_record)
    ELSE translations

\* A record of another pair (same translator and source, other target).
other_record ==
    [translator |-> "ARGOS", source_language |-> "ENGLISH",
     target_language |-> "SPANISH", content |-> <<"h", "o", "l", "a">>]

\* The record of a run started at the same time with another target language.
concurrent_record ==
    [translator |-> "ARGOS", source_language |-> "ENGLISH",
     target_language |-> "GERMAN", content |-> <<"h", "a", "l", "l", "o">>]

\* Number of records of a target field that carry the runs' triple.
RECURSIVE MatchCount(_)
MatchCount(translations) ==
    IF translations = <<>> THEN 0
    ELSE (IF same_languages(Head(translations), interpreter.source_name,
                            interpreter.target_name, interpreter.name)
          THEN 1 ELSE 0) + MatchCount(Tail(translations))

\* ------------------------------------------------------------- state
VARIABLES
    index,          \* the cluster: document id -> its target field (records)
    run,            \* number of engine runs started
    options,        \* options of the current run: force, dry_run, pool_size, total
    pcProd,         \* where the producer is
    scanned,        \* hits the scan has yielded
    hit,            \* the hit the producer holds
    queue,          \* translation_queue: hits put and not yet got
    unfinished,     \* JoinableQueue's count of unfinished tasks
    fatal,          \* shared_fatal_error.value (None, or the failed document)
    pcW,            \* where each worker is
    cur,            \* the hit each worker holds
    enqueued,       \* puts that returned
    dequeued,       \* gets that returned
    completed,      \* task_done calls
    fatalWrites,    \* assignments to shared_fatal_error.value
    translateCalls, \* interpreter.translate calls
    updated,        \* documents an update of this run reached
    failedTr,       \* documents whose translation raised in this run
    before,         \* the index when the run started
    requests,       \* the update requests the cluster received in this run
    srcText,        \* the cluster: document id -> its source field
    plan,           \* the plan option: defer the translations to remote tasks
    tasks,          \* the deferred tasks sent to the broker, in order
    delivered,      \* tasks the broker has handed to a remote worker
    pcR,            \* where each remote worker is
    rcur,           \* the task each remote worker runs, and what it did
    arg,            \* input of the function a function specification applies
    ret,            \* the target field it is applied to, then its result
    pcA,            \* Argos: where each process building an interpreter is
    pairA,          \* Argos: the pair each process builds its interpreter for
    lockA,          \* Argos: the holder of each pair's lock file (None: free)
    installedA,     \* Argos: the pairs whose package is installed
    downloadsA,     \* Argos: downloads of each pair's package that completed
    installFailsA,  \* Argos: installs of each pair's package that raised
    debFile,        \* Apertium repository: content of cache_dir/name/package.deb
    published,      \* Apertium repository: the package the repository serves
    indexCached,    \* Apertium repository: the Packages file is in the cache
    netFetches,     \* Apertium repository: network requests made
    indexFetches,   \* Apertium repository: requests of the Packages file
    pkgFetches,     \* Apertium repository: package downloads that completed
    lastCall,       \* Apertium repository: the last download_package call
    otherSaved      \* the documents a run with another target language updated

vars == <<index, run, options, pcProd, scanned, hit, queue, unfinished, fatal,
          pcW, cur, enqueued, dequeued, completed, fatalWrites, translateCalls,
          updated, failedTr, before, requests, srcText, plan, tasks, delivered,
          pcR, rcur, arg, ret, pcA, pairA, lockA, installedA, downloadsA,
          installFailsA, debFile, published, indexCached, netFetches, indexFetches,
          pkgFetches,
          lastCall, otherSaved>>

\* The variables grouped by what moves them.
cluster == <<requests, srcText, otherSaved>>
remote  == <<plan, tasks, delivered, pcR, rcur>>
argos   == <<pcA, pairA, lockA, installedA, downloadsA, installFailsA>>
repo    == <<debFile, published, indexCached, netFetches, indexFetches, pkgFetches,
             lastCall>>
packs   == <<argos, repo>>
pure    == <<arg, ret, packs>>

None  == 0
NoHit == [id |-> 0, translations |-> <<>>]

\* The producer left translate_documents_in_pool.
RunOver == pcProd \in {"done", "fatal", "full"}

\* An index no run has touched: document 1 holds a record of another pair.
FreshIndex == [d \in Docs |-> IF d = 1 THEN <<other_record>> ELSE <<>>]

\* An index an earlier run has translated.
TranslatedIndex == [d \in Docs |-> Append(FreshIndex[d], translation_record)]

\* Pool(pool_size, translation_worker, ...): pool_size workers at the loop's test.
StartedWorkers(pool_size) ==
    [w \in Workers |-> IF w <= pool_size THEN "check" ELSE "absent"]

\* Pool.__exit__: terminate() ends every worker process where it stands.
TerminatedWorkers ==
    [w \in Workers |-> IF pcW[w] = "absent" THEN "absent" ELSE "terminated"]

\* The fields of the documents the options name.
source_field == "content"
target_field == "content_translated"

\* The source text of every document.
source_value == <<"h", "e", "l", "l", "o">>

\* The routing a document was indexed with: the documents with an even id
\* are children routed to their parent, the others have none.
Routing(d) == IF d % 2 = 0 THEN d - 1 ELSE None

\* hit.meta.to_dict(): index and id, and the routing when the document has one.
meta(d) ==
    IF Routing(d) = None
    THEN [index |-> "docs", id |-> d]
    ELSE [index |-> "docs", id |-> d, routing |-> Routing(d)]

\* TranslatedHit.routing: self.hit.meta.to_dict().get('routing', None)
routing(m) == IF "routing" \in DOMAIN m THEN m.routing ELSE None

\* A buggy body: the source field is sent along with the target field.
body_with_source(translations) ==
    [doc |-> [content |-> <<>>, content_translated |-> translations]]

\* TranslatedHit.body
body(translations) == [doc |-> [content_translated |-> translations]]

\* The arguments of the client.update call of TranslatedHit.save.
update_request(h) ==
    [index   |-> meta(h.id).index,
     id      |-> h.id,
     routing |-> routing(meta(h.id)),
     body    |-> body(h.translations)]

\* The cluster applies a partial update: the fields of the body's doc replace
\* the document's, the others stay.
ClusterUpdate(req) ==
    /\ index' = [index EXCEPT ![req.id] =
                     IF target_field \in DOMAIN req.body.doc
                     THEN req.body.doc[target_field] ELSE @]
    /\ srcText' = [srcText EXCEPT ![req.id] =
                     IF source_field \in DOMAIN req.body.doc
                     THEN req.body.doc[source_field] ELSE @]
    /\ requests' = requests \cup {req}
    /\ UNCHANGED otherSaved

\* The shard a routing value leads to.
Shard(r) == r % NumShards

\* Document.get finds the document when the routing given leads to the shard
\* the document was indexed in (its routing, or its id when it has none).
DocumentFound(id, r) ==
    Shard(r) = Shard(IF Routing(id) = None THEN id ELSE Routing(id))

\* routing = getattr(params, 'routing', params['id']): params is a dict, a
\* dict has no attribute 'routing', the default is what getattr returns.
find_routing(params) == params.id

\* A remote worker with no task.
NoTask == [task |-> None, routing |-> None, hit |-> NoHit, outcome |-> "none"]

\* No process is building an Argos interpreter.
NoArgos ==
    /\ pcA = [p \in Procs |-> "absent"]
    /\ pairA = [p \in Procs |-> "es_en"]
    /\ lockA = [pr \in ArgosPairs |-> None]
    /\ installedA = {}
    /\ downloadsA = [pr \in ArgosPairs |-> 0]
    /\ installFailsA = [pr \in ArgosPairs |-> 0]

\* No Apertium repository is in use.
NoRepo ==
    /\ debFile = [n \in PackageNames |-> "absent"]
    /\ published = "v1"
    /\ indexCached = FALSE
    /\ netFetches = 0
    /\ indexFetches = 0
    /\ pkgFetches = 0
    /\ lastCall = NoCall

\* No deferred task, no remote worker at work, no function applied.
NothingRemote ==
    /\ NoArgos
    /\ NoRepo
    /\ tasks = <<>>
    /\ delivered = 0
    /\ pcR = [r \in Remotes |-> "idle"]
    /\ rcur = [r \in Remotes |-> NoTask]
    /\ arg = None
    /\ ret = None

\* start_now: the options are read, the queue, the cell and the pool created.
InitWith(indexes, pools) ==
    /\ index \in indexes
    /\ before = index
    /\ run = 1
    /\ \E f \in BOOLEAN, dr \in BOOLEAN, p \in pools, k \in 0..MaxDocs :
          /\ options = [force |-> f, dry_run |-> dr, pool_size |-> p, total |-> k]
          /\ pcW = StartedWorkers(p)
    /\ pcProd = "scan"
    /\ scanned = 0
    /\ hit = NoHit
    /\ queue = <<>>
    /\ unfinished = 0
    /\ fatal = None
    /\ cur = [w \in Workers |-> NoHit]
    /\ enqueued = 0
    /\ dequeued = 0
    /\ completed = 0
    /\ fatalWrites = 0
    /\ translateCalls = 0
    /\ updated = {}
    /\ failedTr = {}
    /\ requests = {}
    /\ srcText = [d \in Docs |-> source_value]
    /\ otherSaved = {}
    /\ plan = FALSE
    /\ NothingRemote

\* One engine run, on a fresh or on an already translated index.
Init == InitWith({FreshIndex, TranslatedIndex}, 1..MaxPool)

\* The first of several runs in a row on a fresh index.
InitRuns == InitWith({FreshIndex}, 1..RunsPool)

\* ------------------------------------------------------------ producer
\* start_now on the index the previous run left.
StartRun ==
    /\ RunOver
    /\ run < MaxRuns
    /\ run' = run + 1
    /\ \E f \in BOOLEAN, dr \in BOOLEAN, p \in 1..RunsPool, k \in 0..MaxDocs :
          /\ options' = [force |-> f, dry_run |-> dr, pool_size |-> p, total |-> k]
          /\ pcW' = StartedWorkers(p)
    /\ pcProd' = "scan"
    /\ scanned' = 0
    /\ hit' = NoHit
    /\ queue' = <<>>
    /\ unfinished' = 0
    /\ fatal' = None
    /\ cur' = [w \in Workers |-> NoHit]
    /\ enqueued' = 0
    /\ dequeued' = 0
    /\ completed' = 0
    /\ fatalWrites' = 0
    /\ translateCalls' = 0
    /\ updated' = {}
    /\ failedTr' = {}
    /\ before' = index
    /\ requests' = {}
    /\ UNCHANGED <<index, srcText, otherSaved, remote, pure>>

\* for hit in search.scan(): the next hit, with the fields the cluster holds.
ScanYield ==
    /\ pcProd = "scan"
    /\ scanned < options.total
    /\ scanned' = scanned + 1
    /\ hit' = [id |-> scanned + 1, translations |-> index[scanned + 1]]
    /\ pcProd' = "put"
    /\ UNCHANGED <<index, run, options, queue, unfinished, fatal, pcW, cur, enqueued,
                   dequeued, completed, fatalWrites, translateCalls, updated,
                   failedTr, before, cluster, remote, pure>>

\* The scan is exhausted: translation_queue.join() is next.
ScanEnd ==
    /\ pcProd = "scan"
    /\ scanned >= options.total
    /\ pcProd' = "join"
    /\ UNCHANGED <<index, run, options, scanned, hit, queue, unfinished, fatal, pcW,
                   cur, enqueued, dequeued, completed, fatalWrites, translateCalls,
                   updated, failedTr, before, cluster, remote, pure>>

\* A buggy put: the hit is enqueued twice.
PutTwice ==
    /\ pcProd = "put"
    /\ Len(queue) < options.pool_size
    /\ queue' = Append(Append(queue, hit), hit)
    /\ unfinished' = unfinished + 2
    /\ enqueued' = enqueued + 2
    /\ pcProd' = "checkfatal"
    /\ UNCHANGED <<index, run, options, scanned, hit, fatal, pcW, cur, dequeued,
                   completed, fatalWrites, translateCalls, updated, failedTr, before, cluster, remote, pure>>

\* A buggy put: the queue has no maximum size.
PutUnbounded ==
    /\ pcProd = "put"
    /\ queue' = Append(queue, hit)
    /\ unfinished' = unfinished + 1
    /\ enqueued' = enqueued + 1
    /\ pcProd' = "checkfatal"
    /\ UNCHANGED <<index, run, options, scanned, hit, fatal, pcW, cur, dequeued,
                   completed, fatalWrites, translateCalls, updated, failedTr, before, cluster, remote, pure>>

\* translation_queue.put((self, hit), True, pool_timeout) finds room.
Put ==
    /\ pcProd = "put"
    /\ Len(queue) < options.pool_size
    /\ queue' = Append(queue, hit)
    /\ unfinished' = unfinished + 1
    /\ enqueued' = enqueued + 1
    /\ pcProd' = "checkfatal"
    /\ UNCHANGED <<index, run, options, scanned, hit, fatal, pcW, cur, dequeued,
                   completed, fatalWrites, translateCalls, updated, failedTr, before, cluster, remote, pure>>

\* The queue stayed full for pool_timeout: put raises Full, which leaves
\* process_document and translate_documents_in_pool; the pool is terminated.
PutTimeout ==
    /\ pcProd = "put"
    /\ Len(queue) >= options.pool_size
    /\ pcProd' = "full"
    /\ pcW' = TerminatedWorkers
    /\ UNCHANGED <<index, run, options, scanned, hit, queue, unfinished, fatal, cur,
                   enqueued, dequeued, completed, fatalWrites, translateCalls,
                   updated, failedTr, before, cluster, remote, pure>>

\* if shared_fatal_error.value: raise FatalTranslationException
RaiseFatal ==
    /\ pcProd = "checkfatal"
    /\ fatal # None
    /\ pcProd' = "fatal"
    /\ pcW' = TerminatedWorkers
    /\ UNCHANGED <<index, run, options, scanned, hit, queue, unfinished, fatal, cur,
                   enqueued, dequeued, completed, fatalWrites, translateCalls,
                   updated, failedTr, before, cluster, remote, pure>>

\* The cell is unset: process_document returns, the scan goes on.
NoFatal ==
    /\ pcProd = "checkfatal"
    /\ fatal = None
    /\ pcProd' = "scan"
    /\ UNCHANGED <<index, run, options, scanned, hit, queue, unfinished, fatal, pcW,
                   cur, enqueued, dequeued, completed, fatalWrites, translateCalls,
                   updated, failedTr, before, cluster, remote, pure>>

\* translation_queue.join() returns once every put has its task_done; the
\* with block ends, the pool is terminated, the run returns normally.
Join ==
    /\ pcProd = "join"
    /\ unfinished = 0
    /\ pcProd' = "done"
    /\ pcW' = TerminatedWorkers
    /\ UNCHANGED <<index, run, options, scanned, hit, queue, unfinished, fatal, cur,
                   enqueued, dequeued, completed, fatalWrites, translateCalls,
                   updated, failedTr, before, cluster, remote, pure>>

\* ------------------------------------------------------------- workers
\* while not shared_fatal_error.value: the cell is unset, the body is entered.
WorkerLoop(w) ==
    /\ pcW[w] = "check"
    /\ fatal = None
    /\ pcW' = [pcW EXCEPT ![w] = "get"]
    /\ UNCHANGED <<index, run, options, pcProd, scanned, hit, queue, unfinished,
                   fatal, cur, enqueued, dequeued, completed, fatalWrites,
                   translateCalls, updated, failedTr, before, cluster, remote, pure>>

\* while not shared_fatal_error.value: the cell is set, queue.close().
WorkerExit(w) ==
    /\ pcW[w] = "check"
    /\ fatal # None
    /\ pcW' = [pcW EXCEPT ![w] = "exited"]
    /\ UNCHANGED <<index, run, options, pcProd, scanned, hit, queue, unfinished,
                   fatal, cur, enqueued, dequeued, completed, fatalWrites,
                   translateCalls, updated, failedTr, before, cluster, remote, pure>>

\* es_translator, hit = queue.get(True): blocks until the queue holds a hit.
WorkerGet(w) ==
    /\ pcW[w] = "get"
    /\ queue # <<>>
    /\ cur' = [cur EXCEPT ![w] = Head(queue)]
    /\ queue' = Tail(queue)
    /\ dequeued' = dequeued + 1
    /\ pcW' = [pcW EXCEPT ![w] = "translate"]
    /\ UNCHANGED <<index, run, options, pcProd, scanned, hit, unfinished, fatal,
                   enqueued, completed, fatalWrites, translateCalls, updated,
                   failedTr, before, cluster, remote, pure>>

\* A buggy translate_document: the save is made whatever dry_run says.
WorkerTranslateAlwaysSaves(w) ==
    /\ pcW[w] = "translate"
    /\ cur' = [cur EXCEPT ![w].translations =
                   add_translation(cur[w].translations, options.force)]
    /\ translateCalls' = translateCalls +
          (IF calls_translate(cur[w].translations, options.force) THEN 1 ELSE 0)
    /\ pcW' = [pcW EXCEPT ![w] = "save"]
    /\ UNCHANGED <<index, run, options, pcProd, scanned, hit, queue, unfinished,
                   fatal, enqueued, dequeued, completed, fatalWrites, updated,
                   failedTr, before, cluster, remote, pure>>

\* A buggy translate_document: no save when add_translation appended nothing.
WorkerTranslateSkipsUnchanged(w) ==
    /\ pcW[w] = "translate"
    /\ cur' = [cur EXCEPT ![w].translations =
                   add_translation(cur[w].translations, options.force)]
    /\ translateCalls' = translateCalls +
          (IF calls_translate(cur[w].translations, options.force) THEN 1 ELSE 0)
    /\ pcW' = [pcW EXCEPT ![w] =
                  IF options.dry_run
                     \/ ~calls_translate(cur[w].translations, options.force)
                  THEN "sleep" ELSE "save"]
    /\ UNCHANGED <<index, run, options, pcProd, scanned, hit, queue, unfinished,
                   fatal, enqueued, dequeued, completed, fatalWrites, updated,
                   failedTr, before, cluster, remote, pure>>

\* translate_document up to the save: add_translation returns.
WorkerTranslate(w) ==
    /\ pcW[w] = "translate"
    /\ cur' = [cur EXCEPT ![w].translations =
                   add_translation(cur[w].translations, options.force)]
    /\ translateCalls' = translateCalls +
          (IF calls_translate(cur[w].translations, options.force) THEN 1 ELSE 0)
    /\ pcW' = [pcW EXCEPT ![w] = IF options.dry_run THEN "sleep" ELSE "save"]
    /\ UNCHANGED <<index, run, options, pcProd, scanned, hit, queue, unfinished,
                   fatal, enqueued, dequeued, completed, fatalWrites, updated,
                   failedTr, before, cluster, remote, pure>>

\* A buggy handler: the translation failure is written to the shared cell.
WorkerTranslateFailsPoisons(w) ==
    /\ pcW[w] = "translate"
    /\ calls_translate(cur[w].translations, options.force)
    /\ translateCalls' = translateCalls + 1
    /\ failedTr' = failedTr \cup {cur[w].id}
    /\ fatal' = cur[w].id
    /\ fatalWrites' = fatalWrites + 1
    /\ pcW' = [pcW EXCEPT ![w] = "taskdone"]
    /\ UNCHANGED <<index, run, options, pcProd, scanned, hit, queue, unfinished,
                   cur, enqueued, dequeued, completed, updated, before, cluster, remote, pure>>

\* A buggy translate_document: the save follows a translation that raised.
WorkerTranslateFailsThenSaves(w) ==
    /\ pcW[w] = "translate"
    /\ calls_translate(cur[w].translations, options.force)
    /\ translateCalls' = translateCalls + 1
    /\ failedTr' = failedTr \cup {cur[w].id}
    /\ pcW' = [pcW EXCEPT ![w] = "save"]
    /\ UNCHANGED <<index, run, options, pcProd, scanned, hit, queue, unfinished,
                   fatal, cur, enqueued, dequeued, completed, fatalWrites, updated,
                   before, cluster, remote, pure>>

\* interpreter.translate raises: except Exception logs a warning, then finally.
WorkerTranslateFails(w) ==
    /\ pcW[w] = "translate"
    /\ calls_translate(cur[w].translations, options.force)
    /\ translateCalls' = translateCalls + 1
    /\ failedTr' = failedTr \cup {cur[w].id}
    /\ pcW' = [pcW EXCEPT ![w] = "taskdone"]
    /\ UNCHANGED <<index, run, options, pcProd, scanned, hit, queue, unfinished,
                   fatal, cur, enqueued, dequeued, completed, fatalWrites, updated,
                   before, cluster, remote, pure>>

\* translated_hit.save(client): the update replaces the document's target field.
WorkerSave(w) ==
    /\ pcW[w] = "save"
    /\ ClusterUpdate(update_request(cur[w]))
    /\ updated' = updated \cup {cur[w].id}
    /\ pcW' = [pcW EXCEPT ![w] = "sleep"]
    /\ UNCHANGED <<run, options, pcProd, scanned, hit, queue, unfinished, fatal, cur,
                   enqueued, dequeued, completed, fatalWrites, translateCalls,
                   failedTr, before, remote, pure>>

\* The update raises ElasticsearchException: the handler logs it and assigns
\* it to shared_fatal_error.value; finally follows.
WorkerSaveFails(w) ==
    /\ pcW[w] = "save"
    /\ fatal' = cur[w].id
    /\ fatalWrites' = fatalWrites + 1
    /\ pcW' = [pcW EXCEPT ![w] = "taskdone"]
    /\ UNCHANGED <<index, run, options, pcProd, scanned, hit, queue, unfinished, cur,
                   enqueued, dequeued, completed, translateCalls, updated, failedTr,
                   before, cluster, remote, pure>>

\* sleep(es_translator.throttle / 1000)
WorkerSleep(w) ==
    /\ pcW[w] = "sleep"
    /\ pcW' = [pcW EXCEPT ![w] = "taskdone"]
    /\ UNCHANGED <<index, run, options, pcProd, scanned, hit, queue, unfinished,
                   fatal, cur, enqueued, dequeued, completed, fatalWrites,
                   translateCalls, updated, failedTr, before, cluster, remote, pure>>

\* A buggy finally: task_done is not called.
WorkerTaskDoneForgotten(w) ==
    /\ pcW[w] = "taskdone"
    /\ cur' = [cur EXCEPT ![w] = NoHit]
    /\ pcW' = [pcW EXCEPT ![w] = "check"]
    /\ UNCHANGED <<index, run, options, pcProd, scanned, hit, queue, unfinished, fatal,
                   enqueued, dequeued, completed, fatalWrites, translateCalls, updated,
                   failedTr, before, cluster, remote, pure>>

\* A buggy finally: task_done is called twice.
WorkerTaskDoneTwice(w) ==
    /\ pcW[w] = "taskdone"
    /\ unfinished' = unfinished - 2
    /\ completed' = completed + 2
    /\ cur' = [cur EXCEPT ![w] = NoHit]
    /\ pcW' = [pcW EXCEPT ![w] = "check"]
    /\ UNCHANGED <<index, run, options, pcProd, scanned, hit, queue, fatal, enqueued,
                   dequeued, fatalWrites, translateCalls, updated, failedTr, before, cluster, remote, pure>>

\* finally: queue.task_done()
WorkerTaskDone(w) ==
    /\ pcW[w] = "taskdone"
    /\ unfinished' = unfinished - 1
    /\ completed' = completed + 1
    /\ cur' = [cur EXCEPT ![w] = NoHit]
    /\ pcW' = [pcW EXCEPT ![w] = "check"]
    /\ UNCHANGED <<index, run, options, pcProd, scanned, hit, queue, fatal, enqueued,
                   dequeued, fatalWrites, translateCalls, updated, failedTr, before, cluster, remote, pure>>

Worker(w) ==
    \/ WorkerLoop(w)
    \/ WorkerExit(w)
    \/ WorkerGet(w)
    \/ WorkerTranslate(w)
    \/ WorkerTranslateFails(w)
    \/ WorkerSave(w)
    \/ WorkerSaveFails(w)
    \/ WorkerSleep(w)
    \/ WorkerTaskDone(w)

Producer ==
    \/ ScanYield
    \/ ScanEnd
    \/ Put
    \/ PutTimeout
    \/ RaiseFatal
    \/ NoFatal
    \/ Join

\* A step of the run other than a put that times out or a save that fails.
ProgressStep ==
    \/ ScanYield
    \/ ScanEnd
    \/ Put
    \/ RaiseFatal
    \/ NoFatal
    \/ Join
    \/ \E w \in Workers :
          \/ WorkerLoop(w)
          \/ WorkerExit(w)
          \/ WorkerGet(w)
          \/ WorkerTranslate(w)
          \/ WorkerTranslateFails(w)
          \/ WorkerSave(w)
          \/ WorkerSleep(w)
          \/ WorkerTaskDone(w)

\* One step of the current run.
Engine == Producer \/ \E w \in Workers : Worker(w)

\* One engine run.
Next == Engine

Spec == Init /\ [][Next]_vars

\* A run on the same index with another target language saves document d: a
\* partial update whose body is the target field it has just fetched with its
\* own record appended.
OtherRunSave(d) ==
    /\ pcProd \notin {"none", "plan", "planned"}
    /\ d \notin otherSaved
    /\ otherSaved' = otherSaved \cup {d}
    /\ index' = [index EXCEPT ![d] = Append(@, concurrent_record)]
    /\ UNCHANGED <<run, options, pcProd, scanned, hit, queue, unfinished, fatal,
                   pcW, cur, enqueued, dequeued, completed, fatalWrites,
                   translateCalls, updated, failedTr, before, requests, srcText,
                   remote, pure>>

\* One engine run beside a run with another target language.
NextShared == Engine \/ \E d \in Docs : OtherRunSave(d)

SpecShared == InitRuns /\ [][NextShared]_vars

\* Engine runs in a row on the same index.
NextRuns == StartRun \/ Engine

SpecRuns == InitRuns /\ [][NextRuns]_vars

\* ------------------------------------------------------------ plan mode
\* EsTranslator(options) with plan set, before start: no queue, no pool.
InitPlan ==
    /\ index \in {FreshIndex, TranslatedIndex}
    /\ before = index
    /\ run = 1
    /\ \E f \in BOOLEAN, dr \in BOOLEAN, k \in 0..MaxDocs :
          options = [force |-> f, dry_run |-> dr, pool_size |-> 1, total |-> k]
    /\ pcW = [w \in Workers |-> "absent"]
    /\ pcProd = "plan"
    /\ scanned = 0
    /\ hit = NoHit
    /\ queue = <<>>
    /\ unfinished = 0
    /\ fatal = None
    /\ cur = [w \in Workers |-> NoHit]
    /\ enqueued = 0
    /\ dequeued = 0
    /\ completed = 0
    /\ fatalWrites = 0
    /\ translateCalls = 0
    /\ updated = {}
    /\ failedTr = {}
    /\ requests = {}
    /\ srcText = [d \in Docs |-> source_value]
    /\ otherSaved = {}
    /\ plan = TRUE
    /\ NothingRemote

\* A buggy start_later: the task is sent twice.
PlanEmitTwice ==
    /\ plan
    /\ pcProd = "plan"
    /\ scanned < options.total
    /\ scanned' = scanned + 1
    /\ tasks' = tasks \o << [options |-> options, ref |-> meta(scanned + 1)],
                            [options |-> options, ref |-> meta(scanned + 1)] >>
    /\ UNCHANGED <<index, run, options, pcProd, hit, queue, unfinished, fatal, pcW,
                   cur, enqueued, dequeued, completed, fatalWrites, translateCalls,
                   updated, failedTr, before, cluster, plan, delivered, pcR, rcur,
                   pure>>

\* start_later, one turn of the loop over search.scan():
\* translate_document_task.delay(self.options, hit.meta.to_dict())
PlanEmit ==
    /\ plan
    /\ pcProd = "plan"
    /\ scanned < options.total
    /\ scanned' = scanned + 1
    /\ tasks' = Append(tasks, [options |-> options, ref |-> meta(scanned + 1)])
    /\ UNCHANGED <<index, run, options, pcProd, hit, queue, unfinished, fatal, pcW,
                   cur, enqueued, dequeued, completed, fatalWrites, translateCalls,
                   updated, failedTr, before, cluster, plan, delivered, pcR, rcur,
                   pure>>

\* start_later: the scan is exhausted, start returns.
PlanEnd ==
    /\ plan
    /\ pcProd = "plan"
    /\ scanned >= options.total
    /\ pcProd' = "planned"
    /\ UNCHANGED <<index, run, options, scanned, hit, queue, unfinished, fatal, pcW,
                   cur, enqueued, dequeued, completed, fatalWrites, translateCalls,
                   updated, failedTr, before, cluster, remote, pure>>

\* The broker hands the next task to a remote worker, which enters
\* translate_document_task and builds EsTranslator(translator_options).
TaskReceive(r) ==
    /\ pcR[r] = "idle"
    /\ delivered < Len(tasks)
    /\ delivered' = delivered + 1
    /\ rcur' = [rcur EXCEPT ![r] = [NoTask EXCEPT !.task = tasks[delivered + 1]]]
    /\ pcR' = [pcR EXCEPT ![r] = "find"]
    /\ UNCHANGED <<index, run, options, pcProd, scanned, hit, queue, unfinished,
                   fatal, pcW, cur, enqueued, dequeued, completed, fatalWrites,
                   translateCalls, updated, failedTr, before, cluster, plan, tasks,
                   pure>>

\* es_translator.find_document(document_params): Document.get returns the
\* document, or raises NotFoundError, which ends the task.
TaskFind(r) ==
    /\ pcR[r] = "find"
    /\ LET params == rcur[r].task.ref
           found  == DocumentFound(params.id, find_routing(params))
       IN  /\ rcur' = [rcur EXCEPT
                         ![r].routing = find_routing(params),
                         ![r].hit = IF found
                                    THEN [id |-> params.id,
                                          translations |-> index[params.id]]
                                    ELSE NoHit,
                         ![r].outcome = IF found THEN "none" ELSE "not_found"]
           /\ pcR' = [pcR EXCEPT ![r] = IF found THEN "translate" ELSE "idle"]
    /\ UNCHANGED <<index, run, options, pcProd, scanned, hit, queue, unfinished,
                   fatal, pcW, cur, enqueued, dequeued, completed, fatalWrites,
                   translateCalls, updated, failedTr, before, cluster, plan, tasks,
                   delivered, pure>>

\* translate_document in the task, up to the save: add_translation returns.
TaskTranslate(r) ==
    /\ pcR[r] = "translate"
    /\ LET o == rcur[r].task.options
           t == rcur[r].hit.translations
       IN  /\ rcur' = [rcur EXCEPT
                         ![r].hit.translations = add_translation(t, o.force),
                         ![r].outcome = IF o.dry_run THEN "done" ELSE "none"]
           /\ translateCalls' = translateCalls +
                 (IF calls_translate(t, o.force) THEN 1 ELSE 0)
           /\ pcR' = [pcR EXCEPT ![r] = IF o.dry_run THEN "idle" ELSE "save"]
    /\ UNCHANGED <<index, run, options, pcProd, scanned, hit, queue, unfinished,
                   fatal, pcW, cur, enqueued, dequeued, completed, fatalWrites,
                   updated, failedTr, before, cluster, plan, tasks, delivered, pure>>

\* interpreter.translate raises in the task: the task fails.
TaskTranslateFails(r) ==
    /\ pcR[r] = "translate"
    /\ calls_translate(rcur[r].hit.translations, rcur[r].task.options.force)
    /\ translateCalls' = translateCalls + 1
    /\ failedTr' = failedTr \cup {rcur[r].hit.id}
    /\ rcur' = [rcur EXCEPT ![r].outcome = "translate_failed"]
    /\ pcR' = [pcR EXCEPT ![r] = "idle"]
    /\ UNCHANGED <<index, run, options, pcProd, scanned, hit, queue, unfinished,
                   fatal, pcW, cur, enqueued, dequeued, completed, fatalWrites,
                   updated, before, cluster, plan, tasks, delivered, pure>>

\* translated_hit.save(client) in the task.
TaskSave(r) ==
    /\ pcR[r] = "save"
    /\ ClusterUpdate(update_request(rcur[r].hit))
    /\ updated' = updated \cup {rcur[r].hit.id}
    /\ rcur' = [rcur EXCEPT ![r].outcome = "done"]
    /\ pcR' = [pcR EXCEPT ![r] = "idle"]
    /\ UNCHANGED <<run, options, pcProd, scanned, hit, queue, unfinished, fatal, pcW,
                   cur, enqueued, dequeued, completed, fatalWrites, translateCalls,
                   failedTr, before, plan, tasks, delivered, pure>>

\* The update raises in the task: the task fails.
TaskSaveFails(r) ==
    /\ pcR[r] = "save"
    /\ rcur' = [rcur EXCEPT ![r].outcome = "save_failed"]
    /\ pcR' = [pcR EXCEPT ![r] = "idle"]
    /\ UNCHANGED <<index, run, options, pcProd, scanned, hit, queue, unfinished,
                   fatal, pcW, cur, enqueued, dequeued, completed, fatalWrites,
                   translateCalls, updated, failedTr, before, cluster, plan, tasks,
                   delivered, pure>>

\* translate_document_task on a remote worker.
Remote(r) ==
    \/ TaskReceive(r)
    \/ TaskFind(r)
    \/ TaskTranslate(r)
    \/ TaskTranslateFails(r)
    \/ TaskSave(r)
    \/ TaskSaveFails(r)

\* start_later.
Planner == PlanEmit \/ PlanEnd

\* EsTranslator.start: a local run, or the tasks planned and run remotely.
InitStart == Init \/ InitPlan

NextStart == Engine \/ Planner \/ \E r \in Remotes : Remote(r)

SpecStart == InitStart /\ [][NextStart]_vars

\* ---------------------------------------------------------- truncation
\* The outputs the back end may give: strings of at most MaxLen characters.
Outputs == UNION {[1..n -> {"a", "b"}] : n \in 0..MaxLen}

\* The options a translator may be built with, as far as truncation goes:
\* max_content_length given, or left out.
TruncOptions ==
    {[force |-> FALSE, max_content_length |-> n] : n \in -1..(MaxLen + 1)}
        \cup {[force |-> FALSE]}

\* self.max_content_length = options.get('max_content_length', -1)
configured_max_content_length(o) ==
    IF "max_content_length" \in DOMAIN o THEN o.max_content_length ELSE -1

\* No engine, no plan: the state of the specifications of single functions.
NoEngine ==
    /\ index = FreshIndex
    /\ before = index
    /\ run = 0
    /\ options = [force |-> FALSE, dry_run |-> FALSE, pool_size |-> 1, total |-> 0]
    /\ pcW = [w \in Workers |-> "absent"]
    /\ pcProd = "none"
    /\ scanned = 0
    /\ hit = NoHit
    /\ queue = <<>>
    /\ unfinished = 0
    /\ fatal = None
    /\ cur = [w \in Workers |-> NoHit]
    /\ enqueued = 0
    /\ dequeued = 0
    /\ completed = 0
    /\ fatalWrites = 0
    /\ translateCalls = 0
    /\ updated = {}
    /\ failedTr = {}
    /\ requests = {}
    /\ srcText = [d \in Docs |-> source_value]
    /\ otherSaved = {}
    /\ plan = FALSE
    /\ tasks = <<>>
    /\ delivered = 0
    /\ pcR = [r \in Remotes |-> "idle"]
    /\ rcur = [r \in Remotes |-> NoTask]

\* A translator built with some options, a back end with some output.
InitTrunc ==
    /\ NoEngine
    /\ NoArgos
    /\ NoRepo
    /\ arg \in [options : TruncOptions, output : Outputs]
    /\ ret = <<>>

\* translate_document on a hit with an empty target field: add_translation is
\* given self.max_content_length and appends the record with the output cut.
TranslateDocumentRecord ==
    /\ pcProd = "none"
    /\ ret = <<>>
    /\ ret' = << [translation_record EXCEPT !.content =
                     truncated_content(arg.output,
                         configured_max_content_length(arg.options))] >>
    /\ UNCHANGED <<index, run, options, pcProd, scanned, hit, queue, unfinished,
                   fatal, pcW, cur, enqueued, dequeued, completed, fatalWrites,
                   translateCalls, updated, failedTr, before, cluster, remote, arg,
                   packs>>

NextTrunc == TranslateDocumentRecord

SpecTrunc == InitTrunc /\ [][NextTrunc]_vars

\* ------------------------------------------------------------ Apertium
\* intermediary=None.
NoLang == ""

\* The pair the interpreters of this part are built for.
source == "por"
target == "eng"

\* f'{source}-{target}' (AbstractInterpreter.pair, pair_alpha_3 on 3-letter codes).
pair_of(s, t) == s \o "-" \o t

\* '-'.join(pair.split('-')[::-1]) on 3-letter codes.
pair_inversed(pair) == SubSeq(pair, 5, 7) \o "-" \o SubSeq(pair, 1, 3)

\* s.split('-') on a pair of 3-letter codes.
split(s) == <<SubSeq(s, 1, 3), SubSeq(s, 5, 7)>>

\* The pairs the repository may list.
PairCatalogue == {"por-cat", "cat-eng", "por-spa", "eng-spa", "por-eng", "eng-por"}

\* The lists of remote pairs: at most MaxPairs pairs, in any order, repeats allowed.
RemoteLists == UNION {[1..n -> PairCatalogue] : n \in 0..MaxPairs}

\* The keys of tree['children'] of lang_tree, in insertion order: for each
\* pair holding lang, the other language; a key set again keeps its place.
RECURSIVE child_langs(_, _)
child_langs(lang, pairs) ==
    IF pairs = <<>> THEN <<>>
    ELSE LET rest  == child_langs(lang, SubSeq(pairs, 1, Len(pairs) - 1))
             pair  == pairs[Len(pairs)]
             child == IF pair[1] # lang THEN pair[1] ELSE pair[2]
         IN  IF lang \in {pair[1], pair[2]}
                /\ child \notin {rest[i] : i \in DOMAIN rest}
             THEN Append(rest, child)
             ELSE rest

\* Apertium.lang_tree: children only while depth > 0.
RECURSIVE lang_tree(_, _, _)
lang_tree(lang, pairs, depth) ==
    [lang     |-> lang,
     children |-> IF depth > 0
                  THEN [i \in 1..Len(child_langs(lang, pairs)) |->
                           lang_tree(child_langs(lang, pairs)[i], pairs, depth - 1)]
                  ELSE <<>>]

\* Apertium.leaf_has_lang
RECURSIVE leaf_has_lang(_, _)
leaf_has_lang(leaf, lang) ==
    \/ \E i \in DOMAIN leaf.children : leaf.children[i].lang = lang
    \/ \E i \in DOMAIN leaf.children : leaf_has_lang(leaf.children[i], lang)

\* A buggy search: the last child leading to the language is taken.
RECURSIVE last_pairs_path(_, _)
last_pairs_path(leaf, lang) ==
    LET found == {i \in DOMAIN leaf.children : leaf_has_lang(leaf.children[i], lang)}
    IN  IF found = {} THEN <<>>
        ELSE LET i == CHOOSE j \in found : \A k \in found : k <= j
             IN  <<leaf.children[i].lang>> \o last_pairs_path(leaf.children[i], lang)

\* Apertium.first_pairs_path: the first child leading to the language, then
\* the path below it.
RECURSIVE first_pairs_path(_, _)
first_pairs_path(leaf, lang) ==
    LET found == {i \in DOMAIN leaf.children : leaf_has_lang(leaf.children[i], lang)}
    IN  IF found = {} THEN <<>>
        ELSE LET i == CHOOSE j \in found : \A k \in found : j <= k
             IN  <<leaf.children[i].lang>> \o first_pairs_path(leaf.children[i], lang)

\* Apertium.is_pair_available
is_pair_available(intermediary, local_pairs) ==
    intermediary = NoLang /\ pair_of(source, target) \in local_pairs

\* Apertium.any_pair_variant_in_packages
any_pair_variant_in_packages(remote_pairs) ==
    \E i \in DOMAIN remote_pairs : remote_pairs[i] = pair_of(source, target)

\* ApertiumRepository.find_pair_package is not None: the pair or its inverse
\* names a package.
find_pair_package(pair, remote_pairs) ==
    \E i \in DOMAIN remote_pairs : remote_pairs[i] \in {pair, pair_inversed(pair)}

\* A buggy pipeline: always the direct pair.
pairs_pipeline_direct(intermediary) == <<pair_of(source, target)>>

\* Apertium.pairs_pipeline
pairs_pipeline(intermediary) ==
    IF intermediary # NoLang
    THEN <<pair_of(source, intermediary), pair_of(intermediary, target)>>
    ELSE <<pair_of(source, target)>>

\* except StopIteration: raise Exception('The pair is not available')
constructor_error(e) == IF e = "StopIteration" THEN "PairNotAvailable" ELSE e

\* Apertium.download_intermediary_pairs: the intermediary is discovered when
\* none was given ([0] of an empty path raises IndexError), then the two pairs
\* are installed one after the other (a pair with no package raises).
download_intermediary_pairs(intermediary, local_pairs, remote_pairs) ==
    LET path  == first_pairs_path(
                     lang_tree(source, [i \in DOMAIN remote_pairs |->
                                           split(remote_pairs[i])], 2), target)
    IN  IF intermediary = NoLang /\ path = <<>>
        THEN [error |-> "IndexError", intermediary |-> intermediary,
              local |-> local_pairs]
        ELSE LET m   == IF intermediary = NoLang THEN path[1] ELSE intermediary
                 sm  == pair_of(source, m)
                 mt  == pair_of(m, target)
             IN  IF ~find_pair_package(sm, remote_pairs)
                 THEN [error |-> "NoPairPackage", intermediary |-> m,
                       local |-> local_pairs]
                 ELSE IF ~find_pair_package(mt, remote_pairs)
                 THEN [error |-> "NoPairPackage", intermediary |-> m,
                       local |-> local_pairs \cup {sm}]
                 ELSE [error |-> "none", intermediary |-> m,
                       local |-> local_pairs \cup {sm, mt}]

\* Apertium.download_necessary_pairs: the direct pair when the repository
\* lists it, the intermediary pairs otherwise.
download_necessary_pairs(intermediary, local_pairs, remote_pairs) ==
    IF any_pair_variant_in_packages(remote_pairs)
    THEN [error |-> "none", intermediary |-> intermediary,
          local |-> local_pairs \cup {pair_of(source, target)}]
    ELSE download_intermediary_pairs(intermediary, local_pairs, remote_pairs)

\* Apertium.__init__ for a set pair: what it raises, the intermediary and the
\* local pairs it leaves.
Apertium_init(intermediary, local_pairs, remote_pairs) ==
    IF ~is_pair_available(intermediary, local_pairs)
    THEN LET r == download_necessary_pairs(intermediary, local_pairs, remote_pairs)
         IN  [r EXCEPT !.error = constructor_error(r.error)]
    ELSE [error |-> "none", intermediary |-> intermediary, local |-> local_pairs]

\* Apertium.translate: each pair of the pipeline is applied to the output of
\* the one before (a text is the list of the pairs it went through);
\* translate_with_apertium raises when apertium has no such pair.
RECURSIVE translate(_, _, _)
translate(pipeline, input, local_pairs) ==
    IF pipeline = <<>> THEN [error |-> "none", text |-> input]
    ELSE IF Head(pipeline) \notin local_pairs
         THEN [error |-> "UnableToTranslate", text |-> input]
         ELSE translate(Tail(pipeline), Append(input, Head(pipeline)), local_pairs)

\* Apertium(source, target, intermediary, pack_dir) is about to be called:
\* some intermediary or none, the pair installed or not, some repository.
InitApertium ==
    /\ NoEngine
    /\ NoArgos
    /\ NoRepo
    /\ arg \in [intermediary : {NoLang, "cat", "spa"},
                local        : {{}, {pair_of(source, target)}},
                remote       : RemoteLists]
    /\ ret = [phase |-> "new", error |-> "none", intermediary |-> arg.intermediary,
              local |-> arg.local, text |-> <<>>]

\* Apertium.__init__
ApertiumNew ==
    /\ pcProd = "none"
    /\ ret.phase = "new"
    /\ LET r == Apertium_init(arg.intermediary, arg.local, arg.remote)
       IN  ret' = [phase |-> IF r.error = "none" THEN "built" ELSE "failed",
                   error |-> r.error, intermediary |-> r.intermediary,
                   local |-> r.local, text |-> <<>>]
    /\ UNCHANGED <<index, run, options, pcProd, scanned, hit, queue, unfinished,
                   fatal, pcW, cur, enqueued, dequeued, completed, fatalWrites,
                   translateCalls, updated, failedTr, before, cluster, remote, arg,
                   packs>>

\* Apertium.translate on the interpreter built.
ApertiumTranslate ==
    /\ pcProd = "none"
    /\ ret.phase = "built"
    /\ LET r == translate(pairs_pipeline(ret.intermediary), <<>>, ret.local)
       IN  ret' = [ret EXCEPT !.phase = "translated", !.error = r.error,
                              !.text = r.text]
    /\ UNCHANGED <<index, run, options, pcProd, scanned, hit, queue, unfinished,
                   fatal, pcW, cur, enqueued, dequeued, completed, fatalWrites,
                   translateCalls, updated, failedTr, before, cluster, remote, arg,
                   packs>>

NextApertium == ApertiumNew \/ ApertiumTranslate

SpecApertium == InitApertium /\ [][NextApertium]_vars

\* --------------------------------------------------------------- Argos
\* What a process building an interpreter leaves unchanged: the engine, the
\* cluster, the remote workers, the function specifications, the repository.
ArgosOnly ==
    UNCHANGED <<index, run, options, pcProd, scanned, hit, queue, unfinished,
                fatal, pcW, cur, enqueued, dequeued, completed, fatalWrites,
                translateCalls, updated, failedTr, before, cluster, remote, arg,
                ret, repo>>

\* Processes start Argos(source, target) at the same time, each for a pair;
\* a package may be installed already.
InitArgos ==
    /\ NoEngine
    /\ NoRepo
    /\ arg = None
    /\ ret = None
    /\ pcA = [p \in Procs |-> "new"]
    /\ pairA \in [Procs -> ArgosPairs]
    /\ lockA = [pr \in ArgosPairs |-> None]
    /\ installedA \in {{}, {"fr_en"}}
    /\ downloadsA = [pr \in ArgosPairs |-> 0]
    /\ installFailsA = [pr \in ArgosPairs |-> 0]

\* Argos.__init__: is_pair_available is read without the lock; an installed
\* pair needs nothing more.
ArgosNew(p) ==
    /\ pcProd = "none"
    /\ pcA[p] = "new"
    /\ pcA' = [pcA EXCEPT ![p] = IF pairA[p] \in installedA THEN "found"
                                 ELSE "index"]
    /\ UNCHANGED <<pairA, lockA, installedA, downloadsA, installFailsA>>
    /\ ArgosOnly

\* download_necessary_languages: update_package_index, find_necessary_package;
\* ArgosPairNotAvailable becomes the constructor's 'The pair ... is not
\* available'.
ArgosFindPackage(p) ==
    /\ pcA[p] = "index"
    /\ pcA' = [pcA EXCEPT ![p] = IF pairA[p] \in AvailablePackages THEN "waiting"
                                 ELSE "unavailable"]
    /\ UNCHANGED <<pairA, lockA, installedA, downloadsA, installFailsA>>
    /\ ArgosOnly

\* A buggy acquisition: the lock file is taken whoever holds it.
ArgosAcquireAnyway(p) ==
    /\ pcA[p] = "waiting"
    /\ lockA' = [lockA EXCEPT ![pairA[p]] = p]
    /\ pcA' = [pcA EXCEPT ![p] = "locked"]
    /\ UNCHANGED <<pairA, installedA, downloadsA, installFailsA>>
    /\ ArgosOnly

\* FileLock(tempdir/<from_code>_<to_code>.lock).acquire: granted when no
\* process holds the lock file of the pair.
ArgosAcquire(p) ==
    /\ pcA[p] = "waiting"
    /\ lockA[pairA[p]] = None
    /\ lockA' = [lockA EXCEPT ![pairA[p]] = p]
    /\ pcA' = [pcA EXCEPT ![p] = "locked"]
    /\ UNCHANGED <<pairA, installedA, downloadsA, installFailsA>>
    /\ ArgosOnly

\* The lock was held by another process for the 600 seconds of the timeout:
\* Timeout becomes ArgosPackageDownloadLockTimeout.
ArgosLockTimeout(p) ==
    /\ pcA[p] = "waiting"
    /\ lockA[pairA[p]] # None
    /\ pcA' = [pcA EXCEPT ![p] = "lock_timeout"]
    /\ UNCHANGED <<pairA, lockA, installedA, downloadsA, installFailsA>>
    /\ ArgosOnly

\* Inside the lock: is_package_installed; an installed package returns None
\* and leaving the with block releases the lock.
ArgosCheckInstalled(p) ==
    /\ pcA[p] = "locked"
    /\ IF pairA[p] \in installedA
       THEN /\ pcA' = [pcA EXCEPT ![p] = "skipped"]
            /\ lockA' = [lockA EXCEPT ![pairA[p]] = None]
       ELSE /\ pcA' = [pcA EXCEPT ![p] = "downloading"]
            /\ UNCHANGED lockA
    /\ UNCHANGED <<pairA, installedA, downloadsA, installFailsA>>
    /\ ArgosOnly

\* package.download() returns the path of the downloaded archive.
ArgosDownload(p) ==
    /\ pcA[p] = "downloading"
    /\ downloadsA' = [downloadsA EXCEPT ![pairA[p]] = @ + 1]
    /\ pcA' = [pcA EXCEPT ![p] = "installing"]
    /\ UNCHANGED <<pairA, lockA, installedA, installFailsA>>
    /\ ArgosOnly

\* package.download() raises: the exception leaves the with block, which
\* releases the lock, and the constructor.
ArgosDownloadFails(p) ==
    /\ pcA[p] = "downloading"
    /\ pcA' = [pcA EXCEPT ![p] = "download_failed"]
    /\ lockA' = [lockA EXCEPT ![pairA[p]] = None]
    /\ UNCHANGED <<pairA, installedA, downloadsA, installFailsA>>
    /\ ArgosOnly

\* install_from_path(download_path) installs the package; the lock is released.
ArgosInstall(p) ==
    /\ pcA[p] = "installing"
    /\ installedA' = installedA \cup {pairA[p]}
    /\ pcA' = [pcA EXCEPT ![p] = "installed"]
    /\ lockA' = [lockA EXCEPT ![pairA[p]] = None]
    /\ UNCHANGED <<pairA, downloadsA, installFailsA>>
    /\ ArgosOnly

\* install_from_path raises (an unreadable archive, a full disk): nothing is
\* installed, the lock is released and the constructor raises.
ArgosInstallFails(p) ==
    /\ pcA[p] = "installing"
    /\ installFailsA' = [installFailsA EXCEPT ![pairA[p]] = @ + 1]
    /\ pcA' = [pcA EXCEPT ![p] = "install_failed"]
    /\ lockA' = [lockA EXCEPT ![pairA[p]] = None]
    /\ UNCHANGED <<pairA, installedA, downloadsA>>
    /\ ArgosOnly

\* The processes inside the with block of download_and_install_package.
InSection(p) == pcA[p] \in {"locked", "downloading", "installing"}

ArgosProcess(p) ==
    \/ ArgosNew(p)
    \/ ArgosFindPackage(p)
    \/ ArgosAcquire(p)
    \/ ArgosLockTimeout(p)
    \/ ArgosCheckInstalled(p)
    \/ ArgosDownload(p)
    \/ ArgosDownloadFails(p)
    \/ ArgosInstall(p)
    \/ ArgosInstallFails(p)

NextArgos == \E p \in Procs : ArgosProcess(p)

SpecArgos == InitArgos /\ [][NextArgos]_vars

\* ------------------------------------------------------ language codes
\* pycountry's language table, cut down: three languages with both codes and
\* one (Achinese) that ISO 639 gives no two-letter code; its entry has no
\* alpha_2 attribute.
Languages ==
    { [alpha_2 |-> "en", alpha_3 |-> "eng", name |-> "English"],
      [alpha_2 |-> "fr", alpha_3 |-> "fra", name |-> "French"],
      [alpha_2 |-> "es", alpha_3 |-> "spa", name |-> "Spanish"],
      [alpha_3 |-> "ace", name |-> "Achinese"] }

\* The codes given to the conversions: those of the table and strings of
\* every length from 0 to 4 that are nobody's code.
Codes == {"en", "fr", "es", "eng", "fra", "spa", "ace",
          "", "z", "zz", "zzz", "engl"}

\* languages.get(alpha_2=code) and languages.get(alpha_3=code): the entries
\* found (one at most).
languages_get_alpha_2(code) ==
    {l \in Languages : "alpha_2" \in DOMAIN l /\ l.alpha_2 = code}

languages_get_alpha_3(code) ==
    {l \in Languages : l.alpha_3 = code}

\* A returned value, InvalidLanguageCode(code), or another exception.
Returned(v) == [ok |-> TRUE, value |-> v]
InvalidLanguageCode(code) ==
    [ok |-> FALSE, error |-> "InvalidLanguageCode", code |-> code]
Raised(e) == [ok |-> FALSE, error |-> e, code |-> ""]

\* to_alpha_2: only a code of length 3 is looked up, any other is returned as
\* it is; an entry without alpha_2 makes lang.alpha_2 raise AttributeError.
to_alpha_2(code) ==
    IF Len(code) = 3
    THEN LET found == languages_get_alpha_3(code)
         IN  IF found = {} THEN InvalidLanguageCode(code)
             ELSE LET lang == CHOOSE l \in found : TRUE
                  IN  IF "alpha_2" \in DOMAIN lang THEN Returned(lang.alpha_2)
                      ELSE Raised("AttributeError")
    ELSE Returned(code)

\* A wrong to_alpha_3: the bibliographic code of French in place of the
\* terminologic one.
to_alpha_3_bibliographic(code) ==
    IF Len(code) = 2
    THEN LET found == languages_get_alpha_2(code)
         IN  IF found = {} THEN InvalidLanguageCode(code)
             ELSE LET a3 == (CHOOSE l \in found : TRUE).alpha_3
                  IN  Returned(IF a3 = "fra" THEN "fre" ELSE a3)
    ELSE Returned(code)

\* to_alpha_3: only a code of length 2 is looked up, any other is returned as
\* it is.
to_alpha_3(code) ==
    IF Len(code) = 2
    THEN LET found == languages_get_alpha_2(code)
         IN  IF found = {} THEN InvalidLanguageCode(code)
             ELSE Returned((CHOOSE l \in found : TRUE).alpha_3)
    ELSE Returned(code)

\* to_name: the code is looked up as a two-letter code whatever its length.
to_name(alpha_2) ==
    LET found == languages_get_alpha_2(alpha_2)
    IN  IF found = {} THEN InvalidLanguageCode(alpha_2)
        ELSE Returned((CHOOSE l \in found : TRUE).name)

\* pair.split('-'): the parts of the string between its dashes.
RECURSIVE split_dash(_, _, _)
split_dash(s, from, i) ==
    IF i > Len(s) THEN <<SubSeq(s, from, Len(s))>>
    ELSE IF SubSeq(s, i, i) = "-"
         THEN <<SubSeq(s, from, i - 1)>> \o split_dash(s, i + 1, i + 1)
         ELSE split_dash(s, from, i + 1)

\* to_alpha_3_pair: the pair is split in two at its dash (ValueError when it
\* has not exactly two parts), each part goes through to_alpha_3 (the source
\* first) and the results are joined again.
to_alpha_3_pair(pair) ==
    LET parts == split_dash(pair, 1, 1)
    IN  IF Len(parts) # 2 THEN Raised("ValueError")
        ELSE LET s == to_alpha_3(parts[1])
                 t == to_alpha_3(parts[2])
             IN  IF ~s.ok THEN s
                 ELSE IF ~t.ok THEN t
                 ELSE Returned(s.value \o "-" \o t.value)

\* to_alpha_2(to_alpha_3(c)): the inner failure, if any, is the outcome.
to_alpha_2_of_alpha_3(code) ==
    LET a3 == to_alpha_3(code)
    IN  IF a3.ok THEN to_alpha_2(a3.value) ELSE a3

\* A code some entry of the table has.
Recognized(code) ==
    languages_get_alpha_2(code) # {} \/ languages_get_alpha_3(code) # {}

\* What a conversion leaves unchanged.
AlphaOnly ==
    UNCHANGED <<index, run, options, pcProd, scanned, hit, queue, unfinished,
                fatal, pcW, cur, enqueued, dequeued, completed, fatalWrites,
                translateCalls, updated, failedTr, before, cluster, remote, arg,
                packs>>

\* A code (and a second one, for the pair) is about to be converted.
InitAlpha ==
    /\ NoEngine
    /\ NoArgos
    /\ NoRepo
    /\ arg \in [code : Codes, other : Codes]
    /\ ret = [fn |-> "none", result |-> Raised("none")]

AlphaToAlpha2 ==
    /\ pcProd = "none"
    /\ ret.fn = "none"
    /\ ret' = [fn |-> "to_alpha_2", result |-> to_alpha_2(arg.code)]
    /\ AlphaOnly

AlphaToAlpha3 ==
    /\ ret.fn = "none"
    /\ ret' = [fn |-> "to_alpha_3", result |-> to_alpha_3(arg.code)]
    /\ AlphaOnly

AlphaToName ==
    /\ ret.fn = "none"
    /\ ret' = [fn |-> "to_name", result |-> to_name(arg.code)]
    /\ AlphaOnly

AlphaToAlpha3Pair ==
    /\ ret.fn = "none"
    /\ ret' = [fn |-> "to_alpha_3_pair",
               result |-> to_alpha_3_pair(arg.code \o "-" \o arg.other)]
    /\ AlphaOnly

AlphaRoundTrip ==
    /\ ret.fn = "none"
    /\ ret' = [fn |-> "to_alpha_2_of_alpha_3",
               result |-> to_alpha_2_of_alpha_3(arg.code)]
    /\ AlphaOnly

NextAlpha ==
    \/ AlphaToAlpha2
    \/ AlphaToAlpha3
    \/ AlphaToName
    \/ AlphaToAlpha3Pair
    \/ AlphaRoundTrip

SpecAlpha == InitAlpha /\ [][NextAlpha]_vars

\* ------------------------------------------- intermediary auto-discovery
\* The pairs the repository may list around Spanish and English.
DiscoveryCatalogue == {"spa-cat", "cat-eng", "fra-spa", "eng-fra", "eng-spa"}

DiscoveryLists == UNION {[1..n -> DiscoveryCatalogue] : n \in 0..MaxPairs}

\* Apertium.intermediary_pairs with intermediary=None, for the codes the
\* caller gave: the tree is rooted at self.source and searched for
\* self.target as they were given, the pairs are built from the alpha-3 codes.
intermediary_pairs(src, tgt, remote_pairs) ==
    LET trunk_packages == [i \in DOMAIN remote_pairs |-> split(remote_pairs[i])]
        path == first_pairs_path(lang_tree(src, trunk_packages, 2), tgt)
    IN  IF path = <<>>
        THEN [phase |-> "failed", error |-> "IndexError", intermediary |-> NoLang,
              pairs |-> <<>>]
        ELSE [phase |-> "found", error |-> "none", intermediary |-> path[1],
              pairs |-> <<pair_of(to_alpha_3(src).value, to_alpha_3(path[1]).value),
                          pair_of(to_alpha_3(path[1]).value, to_alpha_3(tgt).value)>>]

\* Spanish to English, each code in its 2-letter or 3-letter form, and some
\* list of remote pairs.
InitDiscovery ==
    /\ NoEngine
    /\ NoArgos
    /\ NoRepo
    /\ arg \in [source : {"es", "spa"}, target : {"en", "eng"},
                remote : DiscoveryLists]
    /\ ret = [phase |-> "new", error |-> "none", intermediary |-> NoLang,
              pairs |-> <<>>]

\* Apertium.intermediary_pairs is read.
ApertiumIntermediaryPairs ==
    /\ pcProd = "none"
    /\ ret.phase = "new"
    /\ ret' = intermediary_pairs(arg.source, arg.target, arg.remote)
    /\ AlphaOnly

NextDiscovery == ApertiumIntermediaryPairs

SpecDiscovery == InitDiscovery /\ [][NextDiscovery]_vars

\* ------------------------------------------------------- package index
\* The descriptors the Packages file may hold: pair packages, packages that
\* are none, and a descriptor without a Package field.
DescriptorCatalogue ==
    { [Package |-> "apertium-eng-spa"],
      [Package |-> "apertium-spa-eng"],
      [Package |-> "apertium-fra-spa"],
      [Package |-> "apertium-e2-spa"],
      [Package |-> "apertium"],
      [Package |-> "nop-eng-spa"],
      [Package |-> "eng-spa"],
      [Provides |-> "apertium-eng-spa"] }

\* ApertiumRepository.packages: at most MaxPackages descriptors, in index order.
PackageLists == UNION {[1..n -> DescriptorCatalogue] : n \in 0..MaxPackages}

\* The pairs asked of the repository, in 2-letter, 3-letter and mixed form.
PairForms == {"en-es", "es-en", "eng-spa", "spa-eng", "en-spa",
              "fr-es", "spa-fra", "en-fr"}

\* str.endswith
endswith(s, suffix) ==
    /\ Len(s) >= Len(suffix)
    /\ SubSeq(s, Len(s) - Len(suffix) + 1, Len(s)) = suffix

\* ApertiumRepository.is_apertium_pair: the Package field splits at its dashes
\* into three parts, the first being 'apertium'; KeyError gives False.
is_apertium_pair(control) ==
    IF "Package" \in DOMAIN control
    THEN LET parts == split_dash(control.Package, 1, 1)
         IN  Len(parts) = 3 /\ parts[1] = "apertium"
    ELSE FALSE

\* ApertiumRepository.pair_packages: filter(is_apertium_pair, packages)
pair_packages(packages) == SelectSeq(packages, is_apertium_pair)

\* '-'.join(pair.split('-')[::-1])
reversed_pair(pair) ==
    LET parts == split_dash(pair, 1, 1) IN parts[2] \o "-" \o parts[1]

\* A descriptor found, or None.
Found(c) == [found |-> TRUE, package |-> c]
NotFound == [found |-> FALSE]

\* A search that looks for the pair in the orientation given only.
find_pair_package_forward(pair, packages) ==
    LET pair3    == to_alpha_3_pair(pair).value
        is_pair(c) == endswith(c.Package, pair3)
        matches  == SelectSeq(pair_packages(packages), is_pair)
    IN  IF matches = <<>> THEN NotFound ELSE Found(Head(matches))

\* ApertiumRepository.find_pair_package: the pair goes to alpha-3, and the
\* first pair package whose name ends with it or with its inverse is returned.
find_pair_package_in(pair, packages) ==
    LET pair3    == to_alpha_3_pair(pair).value
        inversed == reversed_pair(pair3)
        is_pair(c) == endswith(c.Package, pair3) \/ endswith(c.Package, inversed)
        matches  == SelectSeq(pair_packages(packages), is_pair)
    IN  IF matches = <<>> THEN NotFound ELSE Found(Head(matches))

\* A repository whose index holds some descriptors is asked for some pair.
InitIndex ==
    /\ NoEngine
    /\ NoArgos
    /\ NoRepo
    /\ arg \in [packages : PackageLists, pair : PairForms]
    /\ ret = [fn |-> "none"]

\* find_pair_package(pair)
FindPairPackage ==
    /\ pcProd = "none"
    /\ ret.fn = "none"
    /\ ret' = [fn |-> "find_pair_package",
               result |-> find_pair_package_in(arg.pair, arg.packages)]
    /\ AlphaOnly

\* is_apertium_pair(control) on the first descriptor of the index.
IsApertiumPair ==
    /\ ret.fn = "none"
    /\ arg.packages # <<>>
    /\ ret' = [fn |-> "is_apertium_pair",
               result |-> is_apertium_pair(arg.packages[1])]
    /\ AlphaOnly

NextIndex == FindPairPackage \/ IsApertiumPair

SpecIndex == InitIndex /\ [][NextIndex]_vars

\* ------------------------------------------------------ pool directory
\* The links a pool directory listing may hold.
PoolHrefs == {"apertium-es-en_1.0.deb", "apertium-es-en_1.1.deb",
              "apertium-es-en_1.1.dsc", "apertium-es-en-dbg_1.2.deb", "../"}

\* The listings: at most MaxListing links, in the order of the page.
PoolListings == UNION {[1..n -> PoolHrefs] : n \in 0..MaxListing}

\* str.startswith
startswith(s, prefix) ==
    Len(s) >= Len(prefix) /\ SubSeq(s, 1, Len(prefix)) = prefix

\* href="(<package_name>_[^"]+\.deb)": the name, an underscore, at least one
\* character, '.deb'.
matches_pool_pattern(href, package_name) ==
    /\ startswith(href, package_name \o "_")
    /\ endswith(href, ".deb")
    /\ Len(href) > Len(package_name) + 1 + 4

\* ApertiumRepository.find_latest_package_in_pool on a listing that was read:
\* re.findall gives the matches in the order of the page and matches[-1] is
\* taken; no match raises.
find_latest_package_in_pool(package_name, listing) ==
    LET is_match(href) == matches_pool_pattern(href, package_name)
        matches == SelectSeq(listing, is_match)
    IN  IF matches # <<>> THEN [error |-> "none", file |-> matches[Len(matches)]]
        ELSE [error |-> "NotInPool", file |-> ""]

\* The first download failed and the pool directory was listed.
InitPool ==
    /\ NoEngine
    /\ NoArgos
    /\ NoRepo
    /\ arg \in [name : PackageNames, listing : PoolListings]
    /\ ret = [phase |-> "listed", error |-> "none", file |-> ""]

\* find_latest_package_in_pool(name, filename)
FindLatestPackageInPool ==
    /\ pcProd = "none"
    /\ ret.phase = "listed"
    /\ LET r == find_latest_package_in_pool(arg.name, arg.listing)
       IN  ret' = [phase |-> "chosen", error |-> r.error, file |-> r.file]
    /\ AlphaOnly

NextPool == FindLatestPackageInPool

SpecPool == InitPool /\ [][NextPool]_vars

\* ---------------------------------------------------------- mode files
\* The Packages file of the repository of this part.
RepositoryIndex == << [Package |-> "apertium-eng-spa"], [Package |-> "apertium-fra-spa"] >>

\* The pairs install_pair_package is asked for; no package serves the last.
InstallPairs == {"eng-spa", "spa-eng", "es-en", "spa-fra", "eng-fra"}

\* The mode files a pair package ships under usr/share/apertium/modes: those
\* of its two directions.
shipped_modes(name) ==
    LET parts == split_dash(name, 1, 1)
    IN  {parts[2] \o "-" \o parts[3] \o ".mode", parts[3] \o "-" \o parts[2] \o ".mode"}

\* glob('./*/modes/*.mode'): the mode files of the packages extracted in the
\* cache directory.
package_mode_files(dirs) == UNION {shipped_modes(n) : n \in dirs}

\* ApertiumRepository.import_modes: modes/ is deleted first when clear, then
\* the mode files of the extracted packages are copied into it.
import_modes(fs, clear) ==
    [fs EXCEPT !.modes = (IF clear THEN {} ELSE @) \cup package_mode_files(fs.dirs)]

\* ApertiumRepository.create_pair_package_alias: the mode file named after
\* the package gets a link under the other form of the codes, when it is in
\* modes/ already.
create_pair_package_alias(fs, name) ==
    LET parts  == split_dash(name, 1, 1)
        s      == parts[2]
        t      == parts[3]
        a      == IF Len(s) = 2 THEN to_alpha_3(s).value ELSE to_alpha_2(s).value
        b      == IF Len(s) = 2 THEN to_alpha_3(t).value ELSE to_alpha_2(t).value
        mode_file       == s \o "-" \o t \o ".mode"
        mode_alias_file == a \o "-" \o b \o ".mode"
    IN  IF mode_file \in fs.modes
        THEN [fs EXCEPT !.modes = @ \cup {mode_alias_file}]
        ELSE fs

\* A buggy install: the modes are imported with clear=True.
install_pair_package_clearing(fs, pair, downloads) ==
    LET found == find_pair_package_in(pair, RepositoryIndex)
    IN  IF ~found.found THEN [fs EXCEPT !.error = "NoPairPackage"]
        ELSE IF ~downloads THEN [fs EXCEPT !.error = "DownloadError"]
        ELSE LET name      == found.package.Package
                 extracted == [fs EXCEPT !.dirs = @ \cup {name}]
             IN  [import_modes(create_pair_package_alias(extracted, name), TRUE)
                    EXCEPT !.error = "none"]

\* ApertiumRepository.install_pair_package: download_pair_package (no package
\* for the pair, or a download that fails, raises), extract_pair_package,
\* create_pair_package_alias, import_modes(clear=False).
install_pair_package(fs, pair, downloads) ==
    LET found == find_pair_package_in(pair, RepositoryIndex)
    IN  IF ~found.found THEN [fs EXCEPT !.error = "NoPairPackage"]
        ELSE IF ~downloads THEN [fs EXCEPT !.error = "DownloadError"]
        ELSE LET name      == found.package.Package
                 extracted == [fs EXCEPT !.dirs = @ \cup {name}]
             IN  [import_modes(create_pair_package_alias(extracted, name), FALSE)
                    EXCEPT !.error = "none"]

\* A cache directory: no package extracted yet, and in modes/ some mode
\* files left by former installations.
InitModes ==
    /\ NoEngine
    /\ NoArgos
    /\ NoRepo
    /\ arg = None
    /\ ret \in [dirs : {{}}, modes : SUBSET {"cat-spa.mode", "eng-spa.mode", "fr-es.mode"},
                error : {"none"}, ops : {0}, op : {"none"}, pair : {""},
                clear : {FALSE}]

\* install_pair_package(pair)
InstallPairPackage(pair) ==
    /\ pcProd = "none"
    /\ ret.ops < MaxCalls
    /\ \E downloads \in BOOLEAN :
          ret' = [install_pair_package(ret, pair, downloads) EXCEPT
                     !.ops = @ + 1, !.op = "install_pair_package",
                     !.pair = pair, !.clear = FALSE]
    /\ AlphaOnly

\* import_modes(clear)
ImportModes(clear) ==
    /\ ret.ops < MaxCalls
    /\ ret' = [import_modes(ret, clear) EXCEPT
                  !.ops = @ + 1, !.op = "import_modes", !.pair = "",
                  !.clear = clear, !.error = "none"]
    /\ AlphaOnly

NextModes ==
    \/ \E pair \in InstallPairs : InstallPairPackage(pair)
    \/ \E clear \in BOOLEAN : ImportModes(clear)

SpecModes == InitModes /\ [][NextModes]_vars

\* -------------------------------------------------- Apertium repository
\* What a download_package call leaves unchanged.
RepoOnly ==
    UNCHANGED <<index, run, options, pcProd, scanned, hit, queue, unfinished,
                fatal, pcW, cur, enqueued, dequeued, completed, fatalWrites,
                translateCalls, updated, failedTr, before, cluster, remote, arg,
                ret, argos>>

\* A new ApertiumRepository on a cache directory that is empty or holds the
\* package a former process downloaded; nothing is cached in memory yet.
InitRepo ==
    /\ NoEngine
    /\ NoArgos
    /\ arg = None
    /\ ret = None
    /\ debFile \in [PackageNames -> {"absent", "v1"}]
    /\ \A n \in PackageNames \ ListedPackages : debFile[n] = "absent"
    /\ published = "v1"
    /\ indexCached = FALSE
    /\ netFetches = 0
    /\ indexFetches = 0
    /\ pkgFetches = 0
    /\ lastCall = NoCall

\* isfile(package_file)
isfile(n) == debFile[n] # "absent"

\* self.packages: the Packages file is requested unless control_file_content
\* is cached; the requests made by a call that made `more` after it.
requests_made(more) == netFetches + (IF indexCached THEN 0 ELSE 1) + more

\* The requests of the Packages file once self.packages was read.
index_requests == indexFetches + (IF indexCached THEN 0 ELSE 1)

\* The record of the call being made.
call(n, f, result, downloaded) ==
    [seq |-> lastCall.seq + 1, name |-> n, force |-> f, result |-> result,
     existed |-> isfile(n), cached |-> indexCached, downloaded |-> downloaded]

\* What a urlretrieve that raised leaves at package_file: the file as it was
\* (the request was refused) or a partial file (the transfer broke).
LeftBy(n) == {debFile[n], "partial"}

\* The apertium repository publishes a new version of its packages.
RepositoryPublishes ==
    /\ pcProd = "none"
    /\ lastCall.seq > 0
    /\ published = "v1"
    /\ published' = "v2"
    /\ UNCHANGED <<debFile, indexCached, netFetches, indexFetches, pkgFetches,
                   lastCall>>
    /\ RepoOnly

\* A buggy cache: the failed fetch is memoized.
DownloadIndexFailsMemoized(n, f) ==
    /\ lastCall.seq < MaxCalls
    /\ ~indexCached
    /\ netFetches' = netFetches + 1
    /\ indexFetches' = indexFetches + 1
    /\ indexCached' = TRUE
    /\ lastCall' = call(n, f, "index_error", FALSE)
    /\ UNCHANGED <<debFile, published, pkgFetches>>
    /\ RepoOnly

\* download_package: the Packages file cannot be fetched; URLError is raised
\* and nothing is cached.
DownloadIndexFails(n, f) ==
    /\ lastCall.seq < MaxCalls
    /\ ~indexCached
    /\ netFetches' = netFetches + 1
    /\ indexFetches' = indexFetches + 1
    /\ lastCall' = call(n, f, "index_error", FALSE)
    /\ UNCHANGED <<debFile, published, indexCached, pkgFetches>>
    /\ RepoOnly

\* download_package: find_package returns None.
DownloadNotFound(n, f) ==
    /\ lastCall.seq < MaxCalls
    /\ n \notin ListedPackages
    /\ indexCached' = TRUE
    /\ indexFetches' = index_requests
    /\ netFetches' = requests_made(0)
    /\ lastCall' = call(n, f, "not_found", FALSE)
    /\ UNCHANGED <<debFile, published, pkgFetches>>
    /\ RepoOnly

\* A buggy download_package: the package is retrieved although the file is
\* there and force is false.
DownloadAgain(n, f) ==
    /\ lastCall.seq < MaxCalls
    /\ n \in ListedPackages
    /\ ~f /\ isfile(n)
    /\ indexCached' = TRUE
    /\ indexFetches' = index_requests
    /\ netFetches' = requests_made(1)
    /\ debFile' = [debFile EXCEPT ![n] = published]
    /\ pkgFetches' = pkgFetches + 1
    /\ lastCall' = call(n, f, "path", TRUE)
    /\ UNCHANGED published
    /\ RepoOnly

\* download_package: the file is there and force is false; its path is
\* returned.
DownloadCached(n, f) ==
    /\ lastCall.seq < MaxCalls
    /\ n \in ListedPackages
    /\ ~f /\ isfile(n)
    /\ indexCached' = TRUE
    /\ indexFetches' = index_requests
    /\ netFetches' = requests_made(0)
    /\ lastCall' = call(n, f, "path", FALSE)
    /\ UNCHANGED <<debFile, published, pkgFetches>>
    /\ RepoOnly

\* download_package: the file is missing or force is true, and the URL of the
\* Packages file is retrieved.
DownloadFetches(n, f) ==
    /\ lastCall.seq < MaxCalls
    /\ n \in ListedPackages
    /\ f \/ ~isfile(n)
    /\ indexCached' = TRUE
    /\ indexFetches' = index_requests
    /\ netFetches' = requests_made(1)
    /\ debFile' = [debFile EXCEPT ![n] = published]
    /\ pkgFetches' = pkgFetches + 1
    /\ lastCall' = call(n, f, "path", TRUE)
    /\ UNCHANGED published
    /\ RepoOnly

\* download_package: the first urlretrieve raises, the pool directory lists
\* the package and its latest file is retrieved.
DownloadFallback(n, f) ==
    /\ lastCall.seq < MaxCalls
    /\ n \in ListedPackages
    /\ f \/ ~isfile(n)
    /\ indexCached' = TRUE
    /\ indexFetches' = index_requests
    /\ netFetches' = requests_made(3)
    /\ debFile' = [debFile EXCEPT ![n] = published]
    /\ pkgFetches' = pkgFetches + 1
    /\ lastCall' = call(n, f, "path", TRUE)
    /\ UNCHANGED published
    /\ RepoOnly

\* download_package: the first urlretrieve raises and then the pool directory
\* cannot be read (2 requests), lists no file of the package (2 requests) or
\* the second urlretrieve raises too (3 requests); the exception is raised.
DownloadFails(n, f) ==
    /\ lastCall.seq < MaxCalls
    /\ n \in ListedPackages
    /\ f \/ ~isfile(n)
    /\ indexCached' = TRUE
    /\ indexFetches' = index_requests
    /\ \E left \in LeftBy(n) :
          debFile' = [debFile EXCEPT ![n] = left]
    /\ \E stage \in {"pool_error", "pool_no_match", "download_error"} :
          /\ netFetches' = requests_made(IF stage = "download_error" THEN 3 ELSE 2)
          /\ lastCall' = call(n, f, stage, FALSE)
    /\ UNCHANGED <<published, pkgFetches>>
    /\ RepoOnly

download_package(n, f) ==
    \/ DownloadIndexFails(n, f)
    \/ DownloadNotFound(n, f)
    \/ DownloadCached(n, f)
    \/ DownloadFetches(n, f)
    \/ DownloadFallback(n, f)
    \/ DownloadFails(n, f)

NextRepo ==
    \/ \E n \in PackageNames, f \in BOOLEAN : download_package(n, f)
    \/ RepositoryPublishes

SpecRepo == InitRepo /\ [][NextRepo]_vars

\* -------------------------------------------------------- fleet monitor
\* refresh_interval, in seconds.
refresh_interval == 2

\* MonitorStats() as TranslationMonitor.__init__ leaves it (the zeros the
\* history is filled with are left out: history is what was appended). first
\* and firstAt note the count the first successful sample read and the
\* number of values recorded before it.
NewStats ==
    [pc |-> "get", completed_tasks |-> 0, last_completed_count |-> 0,
     last_check_time |-> 0, sampled |-> FALSE, first |-> 0, firstAt |-> 0,
     history |-> <<>>]

\* The monitor starts at time 0 beside workers that have completed some
\* tasks already.
InitMonitor ==
    /\ NoEngine
    /\ NoArgos
    /\ NoRepo
    /\ \E h \in 0..MaxDone : arg = [clock |-> 0, processed |-> h, historic |-> h]
    /\ ret = NewStats

\* A worker completes a task: its 'total' counter goes up.
WorkerCompletesTask ==
    /\ pcProd = "none"
    /\ "processed" \in DOMAIN arg
    /\ arg.processed < arg.historic + MaxDone
    /\ arg' = [arg EXCEPT !.processed = @ + 1]
    /\ UNCHANGED <<index, run, options, pcProd, scanned, hit, queue, unfinished,
                   fatal, pcW, cur, enqueued, dequeued, completed, fatalWrites,
                   translateCalls, updated, failedTr, before, cluster, remote, ret,
                   packs>>

\* What the monitor's own steps leave unchanged.
MonitorOnly ==
    UNCHANGED <<index, run, options, pcProd, scanned, hit, queue, unfinished,
                fatal, pcW, cur, enqueued, dequeued, completed, fatalWrites,
                translateCalls, updated, failedTr, before, cluster, remote, packs>>

\* The time the inspect calls of a sample take: the workers answer at once,
\* or the calls last until their timeouts.
Latencies == {0, refresh_interval}

\* A buggy get_celery_stats: the first sample sets no baseline.
GetCeleryStatsWithoutBaseline(latency) ==
    /\ ret.pc = "get"
    /\ arg.clock + latency <= MaxClock
    /\ arg' = [arg EXCEPT !.clock = @ + latency]
    /\ ret' = [ret EXCEPT !.pc = "update",
                          !.completed_tasks = arg.processed,
                          !.sampled = TRUE,
                          !.first = IF ret.sampled THEN @ ELSE arg.processed,
                          !.firstAt = IF ret.sampled THEN @ ELSE Len(ret.history)]
    /\ MonitorOnly

\* get_celery_stats: completed_tasks is the sum of the workers' counters; the
\* first sample (initial_pending is None) sets last_completed_count to it.
GetCeleryStats(latency) ==
    /\ ret.pc = "get"
    /\ arg.clock + latency <= MaxClock
    /\ arg' = [arg EXCEPT !.clock = @ + latency]
    /\ ret' = [ret EXCEPT !.pc = "update",
                          !.completed_tasks = arg.processed,
                          !.sampled = TRUE,
                          !.last_completed_count =
                               IF ret.sampled THEN @ ELSE arg.processed,
                          !.first = IF ret.sampled THEN @ ELSE arg.processed,
                          !.firstAt = IF ret.sampled THEN @ ELSE Len(ret.history)]
    /\ MonitorOnly

\* get_celery_stats: an inspect call raises; the error is printed and the
\* statistics stay as they were.
GetCeleryStatsFails(latency) ==
    /\ ret.pc = "get"
    /\ arg.clock + latency <= MaxClock
    /\ arg' = [arg EXCEPT !.clock = @ + latency]
    /\ ret' = [ret EXCEPT !.pc = "update"]
    /\ MonitorOnly

\* update_throughput: once refresh_interval has elapsed since the last
\* record, tasks_completed / elapsed is appended (kept as the two numbers,
\* with the completed count of the moment) and the count and time are kept.
UpdateThroughput ==
    /\ ret.pc = "update"
    /\ LET elapsed == arg.clock - ret.last_check_time
       IN  IF elapsed >= refresh_interval
           THEN ret' = [ret EXCEPT
                          !.pc = "sleep",
                          !.history = Append(@,
                              [tasks |-> ret.completed_tasks - ret.last_completed_count,
                               elapsed |-> elapsed, at |-> ret.completed_tasks]),
                          !.last_completed_count = ret.completed_tasks,
                          !.last_check_time = arg.clock]
           ELSE ret' = [ret EXCEPT !.pc = "sleep"]
    /\ UNCHANGED arg
    /\ MonitorOnly

\* time.sleep(self.refresh_interval)
MonitorSleep ==
    /\ ret.pc = "sleep"
    /\ arg.clock + refresh_interval <= MaxClock
    /\ arg' = [arg EXCEPT !.clock = @ + refresh_interval]
    /\ ret' = [ret EXCEPT !.pc = "get"]
    /\ MonitorOnly

NextMonitor ==
    \/ WorkerCompletesTask
    \/ \E latency \in Latencies : GetCeleryStats(latency)
    \/ \E latency \in Latencies : GetCeleryStatsFails(latency)
    \/ UpdateThroughput
    \/ MonitorSleep

SpecMonitor == InitMonitor /\ [][NextMonitor]_vars

\* ------------------------------------------------------------- claims

\* C1: a run in which the save of a document raised a cluster-side error
\* ends with the producer raising FatalTranslationException, whichever
\* document failed, the last ones enqueued included.
C1_FatalPropagation ==
    (RunOver /\ fatalWrites > 0) => pcProd = "fatal"

\* C2: translate_documents_in_pool returns normally (after the join) only
\* with the shared fatal cell still unset.
C2_SuccessOnlyIfCellUnset ==
    pcProd = "done" => fatal = None

\* C3: every run terminates: as long as the producer has neither returned nor
\* raised, the producer or a worker can take a step (the producer never waits
\* on the join for items no worker will dequeue).
C3_RunTerminates ==
    RunOver \/ ENABLED Engine

\* C4: once the shared fatal cell is set, no worker dequeues a further item.
C4_NoDequeueAfterFatal ==
    [][fatal # None => dequeued' = dequeued]_vars

\* C5: the shared fatal cell is written at most once per run.
C5_CellWrittenAtMostOnce ==
    fatalWrites <= 1

\* C6: every dequeued item is matched by exactly one task_done on the
\* success, translation-failure and save-failure paths: task_done calls never
\* outnumber dequeues, the items dequeued and not yet marked done are exactly
\* those a worker still holds inside its try block, and the queue's
\* unfinished count is enqueued minus completed and never negative.
C6_DequeueMatchedByTaskDone ==
    /\ unfinished >= 0
    /\ unfinished = enqueued - completed
    /\ completed <= dequeued
    /\ dequeued - completed = Cardinality({w \in Workers : cur[w] # NoHit})
    /\ \A w \in Workers :
          /\ pcW[w] \in {"check", "get", "exited", "absent"} => cur[w] = NoHit
          /\ pcW[w] \in {"translate", "save", "sleep", "taskdone"} => cur[w] # NoHit

\* C6 witness: a translation-failure path and a save-failure path have both
\* ended with their task_done.
C6_Witness ==
    /\ completed = 2
    /\ failedTr # {}
    /\ fatalWrites = 1
    /\ \A w \in Workers : cur[w] = NoHit

\* C7: an enqueue that times out on a full queue is only a warning: the
\* producer does not abort with Full.
C7_QueueFullIsOnlyAWarning ==
    pcProd # "full"

\* The step of worker w in which interpreter.translate raises.
TranslationFailsStep(w) ==
    /\ pcW[w] = "translate"
    /\ cur[w].id \in failedTr' \ failedTr

\* C8: a translation failure never poisons the run: the step leaves the fatal
\* cell and the index alone and leads to task_done, from where the worker
\* returns to the loop's test; no update is ever issued for the document and
\* the cell never holds its failure.
C8_TranslationFailureDoesNotPoison ==
    /\ [](\A d \in failedTr : d \notin updated /\ index[d] = before[d] /\ fatal # d)
    /\ [][\A w \in Workers :
            /\ TranslationFailsStep(w) =>
                  /\ fatal' = fatal
                  /\ fatalWrites' = fatalWrites
                  /\ index' = index
                  /\ updated' = updated
                  /\ pcW'[w] = "taskdone"
            /\ (pcW[w] = "taskdone" /\ pcW'[w] \notin {"taskdone", "terminated"}) =>
                  /\ pcW'[w] = "check"
                  /\ completed' = completed + 1
            /\ (pcW[w] = "check" /\ fatal = None
                  /\ pcW'[w] \notin {"check", "terminated"}) => pcW'[w] = "get"]_vars

\* C8 witness: the only worker of the pool failed to translate document 1,
\* the cell is unset, and the same worker has gone on to update document 2.
C8_Witness ==
    /\ options.pool_size = 1
    /\ 1 \in failedTr
    /\ fatal = None
    /\ 2 \in updated
    /\ completed = 2

\* C9 as stated: after a run with force=false (here: one that ended in
\* success, dry_run false), every in-scope document holds exactly one
\* matching record and every other document is unchanged.
C9_ExactlyOneRecordAfterRun ==
    (pcProd = "done" /\ fatal = None /\ ~options.force /\ ~options.dry_run) =>
        \A d \in Docs :
            IF d <= options.total THEN MatchCount(index[d]) = 1
            ELSE index[d] = before[d]

\* C9 amended: with force=false a document changes only through an update of
\* the run that succeeded; it then holds exactly one matching record if it
\* held none before the run and is unchanged if it held some.  Documents out
\* of scope are never updated, and a run that ends in success with the cell
\* unset and dry_run false has updated every in-scope document whose
\* translation did not fail.
C9_AtMostOneRecordAdded ==
    ~options.force =>
        /\ \A d \in Docs :
              /\ index[d] = IF d \in updated /\ MatchCount(before[d]) = 0
                            THEN Append(before[d], translation_record)
                            ELSE before[d]
              /\ MatchCount(index[d]) = IF d \in updated /\ MatchCount(before[d]) = 0
                                        THEN 1 ELSE MatchCount(before[d])
              /\ d > options.total => d \notin updated
        /\ (pcProd = "done" /\ fatal = None /\ ~options.dry_run) =>
              \A d \in 1..options.total : d \in updated \/ d \in failedTr

\* C9 witness: a second run with force=false has updated a document that the
\* first run had translated, and the document still holds one matching record.
C9_Witness ==
    /\ run = 2
    /\ RunOver
    /\ ~options.force
    /\ 2 \in updated
    /\ MatchCount(before[2]) = 1
    /\ MatchCount(index[2]) = 1

\* C10 as stated: after a run with force=true (here: one that ended in
\* success, dry_run false), every in-scope document holds one matching record
\* more than before the run.
C10_OneMoreRecordAfterRun ==
    (pcProd = "done" /\ fatal = None /\ options.force /\ ~options.dry_run) =>
        \A d \in 1..options.total : MatchCount(index[d]) = MatchCount(before[d]) + 1

\* C10 amended: with force=true the matching records of a document increase
\* by exactly one when an update of the run for it succeeded, whether or not
\* it held one already, and do not change otherwise; a run that ends in
\* success with the cell unset and dry_run false has updated every in-scope
\* document whose translation did not fail.
C10_OneMoreRecordPerUpdate ==
    options.force =>
        /\ \A d \in Docs :
              /\ index[d] = IF d \in updated
                            THEN Append(before[d], translation_record)
                            ELSE before[d]
              /\ MatchCount(index[d]) =
                    MatchCount(before[d]) + (IF d \in updated THEN 1 ELSE 0)
        /\ (pcProd = "done" /\ fatal = None /\ ~options.dry_run) =>
              \A d \in 1..options.total : d \in updated \/ d \in failedTr

\* C10 witness: two runs with force=true have left two matching records in a
\* document that held none.
C10_Witness ==
    /\ run = 2
    /\ RunOver
    /\ options.force
    /\ 2 \in updated
    /\ MatchCount(before[2]) = 1
    /\ MatchCount(index[2]) = 2

\* C11: without force, add_translation on a hit that already holds a record
\* with the interpreter's triple makes no back-end call and leaves the list
\* as it was, and on a hit without it makes exactly one call; in a run the
\* number of translate calls never exceeds the number of in-scope documents.
C11_TranslateCallsBounded ==
    /\ [](translateCalls <= options.total)
    /\ [][\A w \in Workers :
            (/\ pcW[w] = "translate"
             /\ pcW'[w] \in {"save", "sleep", "taskdone"}
             /\ ~options.force)
            => IF is_translated(cur[w].translations, interpreter.source_name,
                                interpreter.target_name, interpreter.name)
               THEN /\ translateCalls' = translateCalls
                    /\ cur'[w].translations = cur[w].translations
               ELSE translateCalls' = translateCalls + 1]_vars

\* A run without force went through a whole translated index with no call.
C11_Witness ==
    /\ ~options.force
    /\ before = TranslatedIndex
    /\ completed = MaxDocs
    /\ translateCalls = 0

\* C12: each hit the scan yields is enqueued exactly once (the queue and the
\* workers hold the documents 1..enqueued in order, none twice), so no two
\* workers hold the same document at the same time.
C12_EachHitEnqueuedOnce ==
    /\ enqueued = (IF pcProd \in {"put", "full"} THEN scanned - 1 ELSE scanned)
    /\ Len(queue) = enqueued - dequeued
    /\ \A i \in DOMAIN queue : queue[i].id = dequeued + i
    /\ \A w \in Workers : cur[w] # NoHit => cur[w].id \in 1..dequeued
    /\ \A w1, w2 \in Workers :
          (w1 # w2 /\ cur[w1] # NoHit) => cur[w1].id # cur[w2].id

\* Two workers are saving at the same time, each its own document.
C12_Witness ==
    /\ pcW[1] = "save"
    /\ pcW[2] = "save"
    /\ cur[1].id # cur[2].id

\* C13: a worker reaches the save only from a translate step that returned,
\* the index changes only by the save of the hit the worker holds, and the
\* worker gets its next hit only after the previous one went through
\* translate, save and sleep (or through a handler) and task_done.
C13_TranslateSaveSleepInOrder ==
    [][/\ \A w \in Workers :
            /\ (pcW'[w] = "save" /\ pcW[w] # "save")
               => /\ pcW[w] = "translate"
                  /\ cur[w].id \notin failedTr'
                  /\ cur'[w].translations =
                        add_translation(cur[w].translations, options.force)
            /\ (pcW'[w] = "sleep" /\ pcW[w] # "sleep")
               => \/ pcW[w] = "save" /\ cur[w].id \in updated'
                  \/ pcW[w] = "translate" /\ options.dry_run
            /\ (pcW'[w] = "taskdone" /\ pcW[w] # "taskdone")
               => \/ pcW[w] = "sleep"
                  \/ pcW[w] = "translate" /\ cur[w].id \in failedTr'
                  \/ pcW[w] = "save" /\ fatal' = cur[w].id
            /\ (pcW'[w] = "check" /\ pcW[w] # "check") => pcW[w] = "taskdone"
            /\ (pcW'[w] = "get" /\ pcW[w] # "get") => pcW[w] = "check"
            /\ (pcW'[w] = "translate" /\ pcW[w] # "translate")
               => pcW[w] = "get" /\ cur[w] = NoHit
       /\ index' # index
          => \E w \in Workers :
                /\ pcW[w] = "save"
                /\ index' = [index EXCEPT ![cur[w].id] = cur[w].translations]]_vars

\* The only worker has updated document 1 and is translating document 2.
C13_Witness ==
    /\ options.pool_size = 1
    /\ 1 \in updated
    /\ pcW[1] = "translate"
    /\ cur[1].id = 2

\* C15: the hits put and not yet got are the queue's content, never more
\* than pool_size, and a put returns only when the queue held fewer.
C15_BackPressure ==
    /\ [](Len(queue) = enqueued - dequeued /\ Len(queue) <= options.pool_size)
    /\ [][enqueued' > enqueued => Len(queue) < options.pool_size]_vars

\* The producer holds a hit while the queue holds pool_size hits.
C15_Witness ==
    /\ pcProd = "put"
    /\ Len(queue) = options.pool_size
    /\ ~ENABLED Put

\* C14: with dry_run no update reaches the cluster, in a local run and in a
\* remote task alike (no request, every document as it was), and the
\* translate step makes the back-end call it makes in a normal run.
C14_DryRunIssuesNoUpdate ==
    /\ [](options.dry_run
          => /\ requests = {}
             /\ updated = {}
             /\ index = before
             /\ srcText = [d \in Docs |-> source_value])
    /\ [][options.dry_run
          => /\ \A w \in Workers :
                  (pcW[w] = "translate" /\ pcW'[w] \in {"save", "sleep", "taskdone"})
                  => translateCalls' = translateCalls +
                        (IF options.force \/ MatchCount(cur[w].translations) = 0
                         THEN 1 ELSE 0)
             /\ \A r \in Remotes :
                  (pcR[r] = "translate" /\ pcR'[r] # "translate")
                  => translateCalls' = translateCalls +
                        (IF options.force \/ MatchCount(rcur[r].hit.translations) = 0
                         THEN 1 ELSE 0)]_vars

\* A remote task of a dry run has translated its document and is over.
C14_Witness ==
    /\ plan
    /\ options.dry_run
    /\ translateCalls > 0
    /\ \E r \in Remotes : pcR[r] = "idle" /\ rcur[r].outcome = "done"

C17_SaveIsOnePartialUpdate ==
    /\ [](/\ srcText = [d \in Docs |-> source_value]
          /\ \A q \in requests :
                /\ DOMAIN q.body.doc = {target_field}
                /\ q.index = "docs"
                /\ q.routing = (IF q.id % 2 = 0 THEN q.id - 1 ELSE None))
    /\ [][\A w \in Workers :
            (pcW[w] = "save" /\ pcW'[w] = "sleep")
            => /\ requests' = requests \cup
                     {[index |-> "docs", id |-> cur[w].id,
                       routing |-> (IF cur[w].id % 2 = 0 THEN cur[w].id - 1 ELSE None),
                       body |-> [doc |-> [content_translated |-> cur[w].translations]]]}
               /\ Cardinality(requests') = Cardinality(requests) + 1
               /\ index'[cur[w].id] = cur[w].translations
               /\ \A d \in Docs \ {cur[w].id} : index'[d] = index[d]]_vars

\* The cluster received an update without routing and one with a routing.
C17_Witness ==
    /\ ~plan
    /\ \E q \in requests : q.routing = None
    /\ \E q \in requests : q.routing # None

\* C18: in plan mode the producer sends one task per hit, in scan order, each
\* with the engine's options and the hit's reference; nothing is enqueued,
\* no worker exists, and sending a task translates and updates nothing.
C18_PlanEmitsOneTaskPerHit ==
    /\ [](plan
          => /\ Len(tasks) = scanned
             /\ \A i \in DOMAIN tasks :
                   /\ tasks[i].options = options
                   /\ tasks[i].ref.index = "docs"
                   /\ tasks[i].ref.id = i
                   /\ "routing" \in DOMAIN tasks[i].ref <=> Routing(i) # None
                   /\ Routing(i) # None => tasks[i].ref.routing = Routing(i)
             /\ queue = <<>>
             /\ enqueued = 0
             /\ unfinished = 0
             /\ \A w \in Workers : pcW[w] = "absent")
    /\ [][tasks' # tasks
          => /\ Len(tasks') = Len(tasks) + 1
             /\ UNCHANGED <<index, srcText, requests, translateCalls, updated>>]_vars

\* The planner is over: every hit has its task and no task has run yet.
C18_Witness ==
    /\ plan
    /\ pcProd = "planned"
    /\ Len(tasks) = MaxDocs
    /\ delivered = 0
    /\ translateCalls = 0
    /\ requests = {}

\* C19: a remote task that is over, and in which neither the translation
\* nor the update raised, has sent the update a local worker sends for the
\* same document under the same options (none in a dry run).
C19_RemoteTaskSameEffectAsLocal ==
    \A r \in Remotes :
        (/\ pcR[r] = "idle"
         /\ rcur[r].outcome \in {"done", "not_found"})
        => LET d == rcur[r].task.ref.id
               o == rcur[r].task.options
               local == update_request(
                            [id |-> d,
                             translations |-> add_translation(before[d], o.force)])
           IN  IF o.dry_run THEN requests = {} ELSE local \in requests

\* C20: find_document asks for the document with the reference's routing
\* when the reference has one, and with the id only when it has none.
C20_FindUsesReferenceRouting ==
    \A r \in Remotes :
        (pcR[r] \in {"translate", "save"} \/ rcur[r].outcome # "none")
        => LET params == rcur[r].task.ref
           IN  rcur[r].routing = (IF "routing" \in DOMAIN params
                                  THEN params.routing ELSE params.id)

\* Some remote pair joins the two languages, in either order.
RemotePair(a, b) ==
    \E i \in DOMAIN arg.remote : arg.remote[i] \in {pair_of(a, b), pair_of(b, a)}

\* The languages of the catalogue that may bridge the pair.
Intermediaries == {"cat", "spa"}

\* Index of the first remote pair that joins the source and a language.
FirstPairWith(c) ==
    CHOOSE i \in DOMAIN arg.remote :
        /\ arg.remote[i] \in {pair_of(source, c), pair_of(c, source)}
        /\ \A j \in DOMAIN arg.remote :
              arg.remote[j] \in {pair_of(source, c), pair_of(c, source)} => i <= j

\* C21: the constructor of an interpreter whose pair cannot be resolved (not
\* local, no remote package for it in either order, no intermediary given
\* and none that bridges it) fails with the pair-unavailable error only.
C21_UnresolvedPairFailsAsUnavailable ==
    (/\ ret.phase # "new"
     /\ arg.intermediary = NoLang
     /\ pair_of(source, target) \notin arg.local
     /\ ~RemotePair(source, target)
     /\ \A c \in Intermediaries : ~(RemotePair(source, c) /\ RemotePair(c, target)))
    => (ret.phase = "failed" /\ ret.error = "PairNotAvailable")

\* C22: a translation that succeeds went through source-intermediary then
\* intermediary-target, in that order, exactly when the interpreter has an
\* intermediary, and through source-target alone otherwise.
C22_PipelineStagesInOrder ==
    (ret.phase = "translated" /\ ret.error = "none")
    => IF ret.intermediary # NoLang
       THEN ret.text = <<source \o "-" \o ret.intermediary,
                         ret.intermediary \o "-" \o target>>
       ELSE ret.text = <<source \o "-" \o target>>

\* A text went through the two stages of a pipelined interpreter.
C22_Witness ==
    /\ ret.phase = "translated"
    /\ ret.error = "none"
    /\ ret.intermediary = "cat"
    /\ ret.text = <<"por-cat", "cat-eng">>

\* C29: with no intermediary given and no direct pair, the intermediary found
\* is, among the languages joined by remote pairs to both the source and the
\* target, the one whose pair with the source comes first in the remote
\* list; it is neither the source nor the target; one is found whenever
\* such a language exists.
C29_FirstBridgingChildIsChosen ==
    (/\ ret.phase # "new"
     /\ arg.intermediary = NoLang
     /\ pair_of(source, target) \notin arg.local
     /\ \A i \in DOMAIN arg.remote : arg.remote[i] # pair_of(source, target))
    => LET bridges == {c \in Intermediaries :
                          RemotePair(source, c) /\ RemotePair(c, target)}
       IN  IF bridges = {}
           THEN ret.error = "IndexError"
           ELSE /\ ret.error = "none"
                /\ ret.intermediary \in bridges
                /\ ret.intermediary \notin {source, target}
                /\ \A c \in bridges :
                      FirstPairWith(ret.intermediary) <= FirstPairWith(c)

\* Two languages bridge the pair and the one listed first was taken.
C29_Witness ==
    /\ ret.phase = "built"
    /\ arg.intermediary = NoLang
    /\ arg.remote = <<"por-spa", "por-cat", "cat-eng", "eng-spa">>
    /\ ret.intermediary = "spa"

\* C30: once the constructor has returned, every pair of pairs_pipeline is
\* available locally.
C30_PipelinePairsInstalled ==
    ret.phase = "built"
    => \A i \in DOMAIN pairs_pipeline(ret.intermediary) :
          pairs_pipeline(ret.intermediary)[i] \in ret.local

\* C23 (amended): the lock file of a pair is held by at most one process, and
\* only the holder is inside the check-installed / download / install section;
\* no process downloads or installs a pair that is installed, and a pair that
\* is installed is never downloaded again; a pair is downloaded at most once
\* more than its installs have failed.
C23_InstallsSerialized ==
    /\ [](/\ \A p, q \in Procs :
               (InSection(p) /\ InSection(q) /\ pairA[p] = pairA[q]) => p = q
          /\ \A p \in Procs : InSection(p) => lockA[pairA[p]] = p
          /\ \A p \in Procs :
               pcA[p] \in {"downloading", "installing"} => pairA[p] \notin installedA
          /\ \A pr \in ArgosPairs : downloadsA[pr] <= 1 + installFailsA[pr])
    /\ [][\A pr \in installedA : downloadsA'[pr] = downloadsA[pr]]_vars

\* Two processes built the interpreter of the same pair: one downloaded and
\* installed the package, the other obtained the lock afterwards and skipped.
C23_Witness ==
    /\ pairA[1] = pairA[2]
    /\ {pcA[1], pcA[2]} = {"installed", "skipped"}
    /\ downloadsA[pairA[1]] = 1

\* C23 as stated: one process at most in the section of a pair, no download
\* of an installed pair, and each package downloaded at most once across all
\* processes.
C23_DownloadedAtMostOnce ==
    /\ \A p, q \in Procs :
          (InSection(p) /\ InSection(q) /\ pairA[p] = pairA[q]) => p = q
    /\ \A p \in Procs :
          pcA[p] \in {"downloading", "installing"} => pairA[p] \notin installedA
    /\ \A pr \in ArgosPairs : downloadsA[pr] <= 1

\* C24: each of the four conversions returns a value on every recognized code
\* and fails with InvalidLanguageCode carrying the offending code on every
\* other code, whatever its length; no unrecognized code is returned.
C24_UnrecognizedCodesRejected ==
    /\ ret.fn \in {"to_alpha_2", "to_alpha_3", "to_name"} =>
          IF Recognized(arg.code) THEN ret.result.ok
          ELSE ret.result = InvalidLanguageCode(arg.code)
    /\ ret.fn = "to_alpha_3_pair" =>
          IF Recognized(arg.code) /\ Recognized(arg.other) THEN ret.result.ok
          ELSE /\ ~ret.result.ok
               /\ ret.result.error = "InvalidLanguageCode"
               /\ ret.result.code \in {arg.code, arg.other} \ {c \in Codes : Recognized(c)}

\* C25: for every valid code c, of two or of three letters,
\* to_alpha_2(to_alpha_3(c)) has the outcome of to_alpha_2(c).
C25_Alpha2OfAlpha3 ==
    (ret.fn = "to_alpha_2_of_alpha_3" /\ Recognized(arg.code)) =>
        ret.result = to_alpha_2(arg.code)

\* The round trip was made on a two-letter code and gave it back.
C25_Witness ==
    /\ ret.fn = "to_alpha_2_of_alpha_3"
    /\ arg.code = "fr"
    /\ ret.result = Returned("fr")

\* A download_package call is made in this step.
Called == lastCall'.seq = lastCall.seq + 1

\* C26 (amended): download_package(name, force=false) on an existing
\* package.deb retrieves no package, lists no pool directory and leaves the
\* file as it is; its only network request is the fetch of the Packages file,
\* made when the repository object has not cached it yet.  A package is
\* retrieved only when the file is missing or force is true, and of two calls
\* in a row without force for the same name the second retrieves nothing when
\* the first did.
C26_NoRedownloadUnlessForced ==
    [][Called =>
         /\ (~lastCall'.force /\ lastCall'.existed) =>
               /\ debFile' = debFile
               /\ pkgFetches' = pkgFetches
               /\ netFetches' = netFetches + (IF lastCall'.cached THEN 0 ELSE 1)
         /\ pkgFetches' # pkgFetches => (lastCall'.force \/ ~lastCall'.existed)
         /\ (lastCall.downloaded /\ ~lastCall.force /\ ~lastCall'.force
                /\ lastCall'.name = lastCall.name) => pkgFetches' = pkgFetches]_vars

\* A second call without force found the file the first call had downloaded
\* and returned its path, the repository having published a new version in
\* between.
C26_Witness ==
    /\ lastCall.seq = 2
    /\ ~lastCall.force /\ lastCall.existed /\ lastCall.result = "path"
    /\ pkgFetches = 1
    /\ published = "v2"
    /\ debFile["apertium-es-en"] = "v1"

\* C26 as stated: download_package(name, force=false) makes no network fetch
\* at all when package.deb exists and leaves the file unchanged; two calls in
\* a row download at most once.
C26_NoNetworkFetchWhenCached ==
    [][Called =>
         /\ (~lastCall'.force /\ lastCall'.existed) =>
               (debFile' = debFile /\ netFetches' = netFetches)
         /\ (lastCall.downloaded /\ ~lastCall.force /\ ~lastCall'.force
                /\ lastCall'.name = lastCall.name) => pkgFetches' = pkgFetches]_vars

\* C27: in a run where no save fails and no put times out, a step is always
\* possible until the run is over (the join returns), each hit the scan
\* yields is taken off the queue by one worker, in order, which leaves its
\* translate_document through the save, the sleep or the handler and never
\* enters it again for that hit, and the run that ends has the fatal cell
\* unset and every hit yielded, enqueued, dequeued and completed once, for
\* every pool_size and every number of hits.
C27_CleanRunCompletes ==
    /\ []((fatalWrites = 0 /\ ~RunOver) => ENABLED ProgressStep)
    /\ []((fatalWrites = 0 /\ RunOver /\ pcProd # "full") =>
            /\ pcProd = "done"
            /\ fatal = None
            /\ scanned = options.total
            /\ enqueued = options.total
            /\ dequeued = options.total
            /\ completed = options.total
            /\ queue = <<>>
            /\ unfinished = 0
            /\ ~options.dry_run =>
                  /\ updated \cup failedTr = 1..options.total
                  /\ updated \cap failedTr = {})
    /\ [][\A w \in Workers :
            /\ (pcW[w] = "get" /\ pcW'[w] = "translate") =>
                  /\ dequeued' = dequeued + 1
                  /\ cur'[w].id = dequeued'
                  /\ \A v \in Workers \ {w} : cur'[v] = cur[v]
            /\ (pcW[w] = "translate" /\ pcW'[w] # pcW[w] /\ pcProd' = pcProd) =>
                  pcW'[w] \in {"save", "sleep", "taskdone"}
            /\ pcW'[w] = "translate" => pcW[w] \in {"get", "translate"}]_vars

\* A run of the largest pool over every document ended in success with no
\* save having failed.
C27_Witness ==
    /\ pcProd = "done"
    /\ fatalWrites = 0
    /\ fatal = None
    /\ options.total = MaxDocs
    /\ options.pool_size = MaxPool
    /\ ~options.dry_run
    /\ completed = MaxDocs

\* The records of a target field.
Records(translations) == {translations[i] : i \in DOMAIN translations}

\* C28: a save never drops a record another worker wrote to the document
\* between this worker's fetch and its update: every record the cluster holds
\* for a document is still there after a worker's save of that document.
C28_SaveKeepsConcurrentRecords ==
    [][\A w \in Workers :
          (pcW[w] = "save" /\ pcW'[w] = "sleep") =>
              Records(index[cur[w].id]) \subseteq Records(index'[cur[w].id])]_vars

\* C31: when the constructor has to download and the repository lists the
\* pair in either orientation, download_necessary_pairs installs the direct
\* pair and nothing else; it goes to the intermediary pairs only when neither
\* orientation is listed, in agreement with find_pair_package.
C31_DirectPairInEitherOrientation ==
    (/\ ret.phase \in {"built", "failed"}
     /\ ~is_pair_available(arg.intermediary, arg.local)
     /\ find_pair_package(pair_of(source, target), arg.remote))
    => /\ ret.error = "none"
       /\ ret.local = arg.local \cup {pair_of(source, target)}
       /\ ret.intermediary = arg.intermediary

\* C32: for the same list of remote pairs, the intermediary discovered for a
\* source and a target given as 2-letter codes is the one discovered for the
\* equivalent 3-letter codes.
C32_DiscoveryIgnoresCodeForm ==
    ret.phase \in {"found", "failed"} =>
        ret = intermediary_pairs(to_alpha_3(arg.source).value,
                                 to_alpha_3(arg.target).value, arg.remote)

\* C33: with dry_run=false a translate_document whose add_translation
\* returned goes on to the save, also when the hit already held the matching
\* record and force is false (nothing was appended); the cluster receives
\* exactly one update for each document saved and none for the others, and
\* the update of an already translated document carries its list unchanged.
C33_EveryProcessedDocumentIsUpdated ==
    /\ [](\A d \in Docs :
            /\ Cardinality({q \in requests : q.id = d}) =
                  (IF d \in updated THEN 1 ELSE 0)
            /\ (/\ d \in updated
                /\ ~options.force
                /\ is_translated(before[d], interpreter.source_name,
                                 interpreter.target_name, interpreter.name))
               => \A q \in requests :
                     q.id = d => q.body.doc[target_field] = before[d])
    /\ [][\A w \in Workers :
            /\ (/\ pcW[w] = "translate"
                /\ pcW'[w] \notin {"translate", "taskdone"}
                /\ pcProd' = pcProd
                /\ ~options.dry_run) => pcW'[w] = "save"
            /\ (pcW[w] = "save" /\ pcW'[w] = "sleep") =>
                  /\ cur[w].id \notin updated
                  /\ updated' = updated \cup {cur[w].id}
                  /\ Cardinality(requests') = Cardinality(requests) + 1]_vars

\* A run without force and without dry_run saved a document that already held
\* the matching record: no back-end call, one update with the list as it was.
C33_Witness ==
    /\ ~options.force
    /\ ~options.dry_run
    /\ before = TranslatedIndex
    /\ translateCalls = 0
    /\ 1 \in updated
    /\ \E q \in requests : q.id = 1 /\ q.body.doc[target_field] = TranslatedIndex[1]

\* The pairs that name the same two languages as pair, in any form and
\* orientation.
SamePair(pair) ==
    {q \in PairForms :
        to_alpha_3_pair(q).value \in {to_alpha_3_pair(pair).value,
                                      reversed_pair(to_alpha_3_pair(pair).value)}}

\* The lowercase letters.
Lower == {"a", "b", "c", "d", "e", "f", "g", "h", "i", "j", "k", "l", "m",
          "n", "o", "p", "q", "r", "s", "t", "u", "v", "w", "x", "y", "z"}

\* s matches [a-z]+
Letters(s) == Len(s) > 0 /\ \A i \in 1..Len(s) : SubSeq(s, i, i) \in Lower

\* name matches ^apertium-[a-z]+-[a-z]+$
MatchesPairName(name) ==
    LET parts == split_dash(name, 1, 1)
    IN  Len(parts) = 3 /\ parts[1] = "apertium" /\ Letters(parts[2])
        /\ Letters(parts[3])

\* C34: find_pair_package gives the same answer for a pair, for its reverse
\* and for either in 2-letter or 3-letter form: the first descriptor, in
\* index order, of a pair package whose name ends with the alpha-3 pair or
\* with its reverse, and None when there is none.
C34_FindPairPackageSymmetric ==
    ret.fn = "find_pair_package" =>
        /\ \A q \in SamePair(arg.pair) :
               find_pair_package_in(q, arg.packages) = ret.result
        /\ LET p3 == to_alpha_3_pair(arg.pair).value
               hits == {i \in DOMAIN arg.packages :
                          /\ is_apertium_pair(arg.packages[i])
                          /\ \/ endswith(arg.packages[i].Package, p3)
                             \/ endswith(arg.packages[i].Package, reversed_pair(p3))}
           IN  IF hits = {} THEN ret.result = NotFound
               ELSE ret.result =
                      Found(arg.packages[CHOOSE i \in hits : \A j \in hits : i <= j])

\* The pair was asked in 2-letter form and in the orientation the package
\* does not have; the package found is the second that matches nothing but
\* the reverse, behind a package that is no pair package.
C34_Witness ==
    /\ ret.fn = "find_pair_package"
    /\ arg.pair = "es-en"
    /\ arg.packages = << [Package |-> "nop-eng-spa"], [Package |-> "apertium-fra-spa"],
                         [Package |-> "apertium-eng-spa"] >>
    /\ ret.result = Found([Package |-> "apertium-eng-spa"])

\* C35: is_apertium_pair(d) is true exactly when d has a Package field that
\* matches ^apertium-[a-z]+-[a-z]+$.
C35_PairPackageNamePattern ==
    ret.fn = "is_apertium_pair" =>
        ret.result = (/\ "Package" \in DOMAIN arg.packages[1]
                      /\ MatchesPairName(arg.packages[1].Package))

\* The place of a character in the order of the code points, for the
\* characters of the file names.
CodePoint(c) ==
    CASE c = "-" -> 45 [] c = "." -> 46 [] c = "/" -> 47
      [] c = "0" -> 48 [] c = "1" -> 49 [] c = "2" -> 50
      [] c = "_" -> 95 [] c = "a" -> 97 [] c = "b" -> 98 [] c = "c" -> 99
      [] c = "d" -> 100 [] c = "e" -> 101 [] c = "g" -> 103 [] c = "i" -> 105
      [] c = "m" -> 109 [] c = "n" -> 110 [] c = "p" -> 112 [] c = "r" -> 114
      [] c = "s" -> 115 [] c = "t" -> 116 [] c = "u" -> 117 [] c = "x" -> 120
      [] c = "y" -> 121

\* a <= b in the lexicographic order of strings.
RECURSIVE LexLeq(_, _)
LexLeq(a, b) ==
    IF Len(a) = 0 THEN TRUE
    ELSE IF Len(b) = 0 THEN FALSE
    ELSE LET x == CodePoint(SubSeq(a, 1, 1))
             y == CodePoint(SubSeq(b, 1, 1))
         IN  IF x # y THEN x < y
             ELSE LexLeq(SubSeq(a, 2, Len(a)), SubSeq(b, 2, Len(b)))

\* C36: the fallback chooses, among the .deb files of the listing that match
\* the package name, the lexicographically last one, whatever the order of
\* the listing, and raises when none matches.
C36_FallbackTakesLexicographicallyLast ==
    ret.phase = "chosen" =>
        LET matching == {arg.listing[i] : i \in
                            {j \in DOMAIN arg.listing :
                                matches_pool_pattern(arg.listing[j], arg.name)}}
        IN  IF matching = {} THEN ret.error = "NotInPool"
            ELSE /\ ret.error = "none"
                 /\ ret.file \in matching
                 /\ \A f \in matching : LexLeq(f, ret.file)

\* C37: once the Packages file was fetched, no later call of the repository
\* object requests it again; a call whose fetch fails raises and memoizes
\* nothing, and the next call requests the file again.
C37_IndexFetchedOnceAndFailuresNotCached ==
    [][/\ indexCached => (indexCached' /\ indexFetches' = indexFetches)
       /\ Called =>
             /\ lastCall'.cached = indexCached
             /\ ~indexCached =>
                   /\ indexFetches' = indexFetches + 1
                   /\ indexCached' = (lastCall'.result # "index_error")
             /\ lastCall'.result = "index_error" => ~indexCached]_vars

\* The first call failed on the fetch of the Packages file, the second
\* fetched it and the third used the memoized copy.
C37_Witness ==
    /\ lastCall.seq = 3
    /\ lastCall.cached
    /\ indexCached
    /\ indexFetches = 2

\* C38: install_pair_package removes no mode file of cache_dir/modes, and
\* when it succeeds modes/ holds the mode files of both directions of the
\* package installed, in whichever orientation and form the pair was asked;
\* a mode file disappears only by import_modes(clear=True).
C38_InstallKeepsModes ==
    [][ret'.ops = ret.ops + 1 =>
         /\ ret'.op = "install_pair_package" =>
               /\ ret.modes \subseteq ret'.modes
               /\ ret'.error = "none" =>
                     shipped_modes(find_pair_package_in(ret'.pair,
                                       RepositoryIndex).package.Package)
                        \subseteq ret'.modes
         /\ ~(ret.modes \subseteq ret'.modes) =>
               (ret'.op = "import_modes" /\ ret'.clear)]_vars

\* The pair was asked in the orientation the package does not have: both
\* mode files are there, beside a mode file that was there before.
C38_Witness ==
    /\ ret.op = "install_pair_package"
    /\ ret.pair = "spa-eng"
    /\ ret.error = "none"
    /\ {"cat-spa.mode", "eng-spa.mode", "spa-eng.mode"} \subseteq ret.modes
    /\ ret.dirs = {"apertium-eng-spa"}

====
